---- MODULE Spec2Model ----
(***************************************************************************)
(* SignBridge native messaging host: the stdin listener, the Qt main      *)
(* thread (SignBridgeWindow handlers), the sign-worker thread and the     *)
(* processing engine it drives, with the HTTP traffic they produce.       *)
(*                                                                         *)
(* Threads interleave at their blocking calls (HTTP requests, PKCS#11     *)
(* calls, signal delivery); everything a thread does between two blocking *)
(* calls is one step.  A request is identified by the position of its     *)
(* frame on stdin; its resolved objects are 1..n in declaration order.    *)
(***************************************************************************)
EXTENDS Integers, Sequences, FiniteSets, TLC

\* ---- bounds of the model ------------------------------------------------
MaxObjs == 2      \* objects in one request
MaxMsgs == 2      \* read_message calls the stdin loop makes (frames or EOF)
MaxRuns == 1      \* times the operator presses Sign
MaxTicks == 2     \* refresh-timer ticks and Refresh clicks

\* ---- program constants --------------------------------------------------
PROTOCOL_VERSION == "1.0"
SUPPORTED_DATA_TYPES == {"text", "xml", "json", "pdf", "binary"}
REMOTE_ONLY_TYPES == {"pdf", "binary"}
MAX_INLINE_SIZE_BYTES == 1048576
MAX_MESSAGE_SIZE == 1048576

VARIABLES
    \* stdin-listener thread
    stdin,                \* "reading" | "closed": position of _stdin_loop
    msgs,                 \* raw frames read so far; index = request identity
    \* Qt event queue: signals posted to the main thread, in posting order
    signals,
    \* SignBridgeWindow fields (main thread)
    current_request,      \* 0 = None, else index into msgs
    cancel_requested,
    response_sent,
    signing_in_progress,
    sign_btn,             \* _sign_btn.isEnabled()
    cancel_btn,           \* _cancel_btn.isEnabled()
    window,               \* "open" | "closed"
    alive,                \* the process is running
    runs,                 \* sign workers started so far
    \* sign-worker thread
    wpc,                  \* position of _sign_worker / process_request
    wreq,                 \* raw_request argument of the worker (index into msgs)
    idx,                  \* loop index (1-based) of the object being processed
    cur,                  \* the resolved object being processed
    session,              \* "none" | "open" | "closed": the worker's local `session`
    results,              \* ResponseBuilder.results (object ids)
    errors,               \* ResponseBuilder.errors ([id, code])
    wfail,                \* why the worker took a request-level error path
    \* what the outside world sees
    stdout,               \* frames written by write_message
    emitted,              \* every response dict built and handed on
    log,                  \* HTTP operations and PKCS#11 signatures, in order
    recording,            \* "all" | "last" | "none": what log keeps (it is
                          \* history, not program state)
    callback_answers,     \* what the onSuccess/onError endpoints may answer
                          \* to a POST (the environment of the run)
    \* token enumeration (main thread flag, token-refresh threads)
    token_refresh_in_progress,
    refresh_workers,      \* token-refresh threads inside get_token_slots
    ticks,                \* timer ticks and Refresh clicks so far
    \* the validator on its own: one envelope and what becomes of it
    envelope,
    validated,
    \* the framing on its own: what is still to come on stdin, and the
    \* write_message calls made so far with what they returned
    stream,
    writes,
    \* the certificate lookup on its own: the certificates on the token, the
    \* certId of the request and what find_certificate_by_id returned
    certs,
    cert_id,
    cert_info,
    \* the upload request on its own: the upload fields of an object and the
    \* headers handed to requests.request
    signed_content_type,
    upload_headers,
    req_headers

certVars   == <<certs, cert_id, cert_info>>
uploadVars == <<signed_content_type, upload_headers, req_headers>>

vars == <<stdin, msgs, signals, current_request, cancel_requested, response_sent,
          signing_in_progress, sign_btn, cancel_btn, window, alive, runs,
          wpc, wreq, idx, cur, session, results, errors, wfail,
          stdout, emitted, log, recording, callback_answers, certVars, uploadVars,
          token_refresh_in_progress, refresh_workers, ticks,
          envelope, validated, stream, writes>>

tokenVars      == <<token_refresh_in_progress, refresh_workers, ticks>>
validationVars == <<envelope, validated>>
framingVars    == <<stream, writes>>
sideVars       == <<recording, callback_answers, certVars, uploadVars, tokenVars, validationVars, framingVars>>

mainVars   == <<current_request, cancel_requested, response_sent,
                signing_in_progress, sign_btn, cancel_btn, window, runs>>
stdinVars  == <<stdin, msgs>>
workerVars == <<wpc, wreq, idx, cur, session, results, errors, wfail>>

\* ---- small helpers ------------------------------------------------------
Last(s) == s[Len(s)]

NoObject == [inline |-> FALSE, progress |-> FALSE, pfail |-> FALSE]

\* The shapes a resolved object can have that the engine distinguishes:
\* inline_content or download_url, and whether callbacks.progress is set.
ObjectShapes == [inline : BOOLEAN, progress : BOOLEAN]

\* Outcomes of one HTTP exchange (requests.request / requests.post).
HttpOutcomes == {"2xx", "non2xx", "timeout", "connerr"}

\* What a frame can have under its metadata key: nothing (no key), an empty
\* or a non-empty mapping, or something that is no mapping, falsy ("[]") or
\* truthy ("text").
MetadataValues == {"absent", "{}", "{k:v}", "[]", "text"}
Mappings == {"{}", "{k:v}"}

\* Raw frames: protocolVersion, the number of entries of its work list and
\* its metadata, here an empty mapping.  The frame of another protocol
\* version is defective besides: its work list is empty.
RawMessages ==
    [pv : {"1.0"}, n : 0..MaxObjs, md : {"{}"}]
    \cup [pv : {"2.0"}, n : {0}, md : {"{}"}]

\* Raw frames with any metadata.
MetadataMessages ==
    [pv : {"1.0"}, n : 0..MaxObjs, md : MetadataValues]
    \cup [pv : {"2.0"}, n : {0}, md : MetadataValues]

\* ---- messaging/request_parser.py ---------------------------------------
\* A parser that looks at the work list before the protocol version.
parse_request_listfirst(raw) ==
    IF raw.n = 0 THEN "BAD_REQUEST"
    ELSE IF raw.pv # PROTOCOL_VERSION THEN "UNSUPPORTED_VERSION"
    ELSE IF raw.md \notin Mappings \cup {"absent"} THEN "BAD_REQUEST"
    ELSE "ok"

\* parse_request: "ok" or the code of the RequestValidationError it raises.
parse_request(raw) ==
    IF raw.pv # PROTOCOL_VERSION THEN "UNSUPPORTED_VERSION"
    ELSE IF raw.md \notin Mappings \cup {"absent"} THEN "BAD_REQUEST"
    ELSE IF raw.n = 0 THEN "BAD_REQUEST"
    ELSE "ok"

\* A parse_request that leaves the metadata of the request empty.
request_metadata_dropped(raw) == "{}"

\* parse_request: SignRequest.metadata, raw.get("metadata", {}); it is what
\* the engine and _send_error_callbacks_for_all hand to every callback and
\* to the ResponseBuilder.
request_metadata(raw) == IF raw.md = "absent" THEN "{}" ELSE raw.md

\* The metadata argument at the call sites of build_request_error:
\* raw.get("metadata"), None when there is no key.
raw_metadata(raw) == IF raw.md = "absent" THEN "None" ELSE raw.md

\* ---- processing/object_resolver.py --------------------------------------
\* resolve_objects: the ids of the flat work list, in declaration order.
resolve_objects(raw) == [i \in 1..raw.n |-> i]

\* A build that tests the two lists the wrong way round.
BuildStatus_swapped(res, errs) ==
    IF Len(res) = 0 THEN "ok"
    ELSE IF Len(errs) = 0 THEN "error"
    ELSE "partial"

\* ---- messaging/response_builder.py --------------------------------------
\* ResponseBuilder.build: the overall status.
BuildStatus(res, errs) ==
    IF Len(errs) = 0 THEN "ok"
    ELSE IF Len(res) = 0 THEN "error"
    ELSE "partial"

\* A build that lists the errors latest first.
build_latestfirst(res, errs, metadata) ==
    [status |-> BuildStatus(res, errs), results |-> res,
     errors |-> [i \in DOMAIN errs |-> errs[Len(errs) + 1 - i]],
     metadata |-> metadata]

\* ResponseBuilder.build: the response dict (id 0 stands for "no id key").
build(res, errs, metadata) ==
    [status |-> BuildStatus(res, errs), results |-> res, errors |-> errs,
     metadata |-> metadata]

\* build_request_error: a request-level error response.
\* "metadata": metadata or {}: None and the falsy values give {}.
build_request_error(code, metadata) ==
    [status |-> "error", results |-> <<>>, errors |-> <<[id |-> 0, code |-> code]>>,
     metadata |-> IF metadata \in {"None", "{}", "[]"} THEN "{}" ELSE metadata]

\* build_request_error as _handle_message and _sign_worker call it on frame
\* m: metadata=raw_request.get("metadata").
request_error(m, code) == build_request_error(code, raw_metadata(msgs[m]))

\* A downloader that reports every failure as DOWNLOAD_FAILED.
DownloadCode_flat(outcome) == "DOWNLOAD_FAILED"

\* ---- network/downloader.py, network/uploader.py -------------------------
\* download_content: the DownloadError code for a failed exchange.
DownloadCode(outcome) ==
    IF outcome = "timeout" THEN "TIMEOUT" ELSE "DOWNLOAD_FAILED"

\* upload_signed_content: the UploadError code for a failed exchange.
UploadCode(outcome) ==
    IF outcome = "timeout" THEN "TIMEOUT" ELSE "UPLOAD_FAILED"

\* ---- one entry of the log -----------------------------------------------
\* kind: "download" | "sign" | "upload" (pipeline operations),
\*       "progress" | "success" | "error" (callback POSTs).
\* info: the outcome of an operation / progress POST, or the error code an
\*       error callback carries.   by: the thread that performed it.
\* metadata: the "metadata" of a callback's payload, request.metadata at
\*       every call site.
\* answer: what the endpoint answered to a success or error callback POST
\*       ("2xx" until Answered says otherwise).
Entry(r, i, kind, info, by) ==
    [req |-> r, id |-> i, kind |-> kind, info |-> info, by |-> by,
     metadata |-> IF kind \in {"progress", "success", "error"}
                  THEN request_metadata(msgs[r]) ELSE "none",
     answer |-> IF kind \in {"success", "error"} THEN "2xx" ELSE "none"]

\* The callback POST `e`, answered with `ans`; a sequence of them, each with
\* its own answer.
Answered(e, ans) == [e EXCEPT !.answer = ans]
AnsweredAll(es, answers) == [i \in DOMAIN es |-> Answered(es[i], answers[i])]


NoResp == [status |-> "none", results |-> <<>>, errors |-> <<>>, metadata |-> "none"]

\* The log with `entries` added at its end, when the traffic is recorded.
Record(entries) ==
    IF recording = "all" THEN log \o entries
    ELSE IF recording = "last" /\ entries # <<>> THEN entries
    ELSE log

\* ---- the validator on its own -------------------------------------------
\* No envelope under validation, and nothing validated yet.
NoEnvelope == [pv |-> "none"]
NotValidated == [code |-> "none", resolved |-> <<>>]

\* ---- the certificate lookup and the upload request on their own ----------
\* No lookup made and no upload request prepared.
NotLookedUp == [done |-> FALSE, index |-> 0]
NotPrepared == [done |-> FALSE, headers |-> <<>>]
\* headers=None of upload_signed_content.
NoHeaders == [given |-> FALSE, dict |-> <<>>]

NoLookup ==
    /\ certs = <<>>
    /\ cert_id = <<>>
    /\ cert_info = NotLookedUp

NoUpload ==
    /\ signed_content_type = "string"
    /\ upload_headers = NoHeaders
    /\ req_headers = NotPrepared

\* ---- gui/app.py: construction -------------------------------------------
\* SignBridgeWindow.__init__: a loaded PKCS#11 library with a signing token
\* in the combo box, the stdin listener started, nothing received yet.
has_token == TRUE

Constructed ==
    /\ stdin = "reading"
    /\ msgs = <<>>
    /\ signals = <<>>
    /\ current_request = 0
    /\ cancel_requested = FALSE
    /\ response_sent = FALSE
    /\ signing_in_progress = FALSE
    /\ sign_btn = FALSE
    /\ cancel_btn = FALSE
    /\ window = "open"
    /\ alive = TRUE
    /\ runs = 0
    /\ wpc = "idle"
    /\ wreq = 0
    /\ idx = 0
    /\ cur = NoObject
    /\ session = "none"
    /\ results = <<>>
    /\ errors = <<>>
    /\ wfail = "none"
    /\ stdout = <<>>
    /\ emitted = <<>>
    /\ log = <<>>
    /\ token_refresh_in_progress = FALSE
    /\ refresh_workers = 0
    /\ ticks = 0

\* The host with its HTTP and PKCS#11 traffic recorded.
Init ==
    /\ Constructed
    /\ recording = "all"
    /\ callback_answers = {"2xx"}
    /\ NoLookup
    /\ NoUpload
    /\ envelope = NoEnvelope
    /\ validated = NotValidated
    /\ stream = <<>>
    /\ writes = <<>>

\* ---- gui/app.py: stdin listener thread ----------------------------------
\* _stdin_loop, one iteration with a frame: read_message returns a dict and
\* message_received is emitted (queued to the main thread).
stdin_loop_message ==
    /\ alive
    /\ UNCHANGED sideVars
    /\ stdin = "reading"
    /\ Len(msgs) < MaxMsgs
    /\ \E raw \in RawMessages :
        /\ msgs' = Append(msgs, raw)
        /\ signals' = Append(signals,
                [type |-> "message", req |-> Len(msgs) + 1, resp |-> NoResp])
    /\ UNCHANGED <<stdin, mainVars, workerVars, alive, stdout, emitted, log>>

\* _stdin_loop, the iteration where read_message returns None (stdin closed,
\* short read, oversized or undecodable frame): the loop breaks.
stdin_loop_eof ==
    /\ alive
    /\ UNCHANGED sideVars
    /\ stdin = "reading"
    /\ Len(msgs) < MaxMsgs
    /\ stdin' = "closed"
    /\ UNCHANGED <<msgs, signals, mainVars, workerVars, alive, stdout, emitted, log>>

\* ---- gui/app.py: main-thread handlers -----------------------------------
\* An _update_ui_state that does not look at _signing_in_progress.
update_ui_state_nosigning(req, signing) == has_token /\ req # 0

\* _update_ui_state: the enabled state of the Sign button.
update_ui_state(req, signing) == has_token /\ req # 0 /\ ~signing

\* A _handle_message that records the message as the current request before
\* it is parsed.
handle_message_recordsfirst ==
    /\ alive
    /\ UNCHANGED sideVars
    /\ window = "open"
    /\ signals # <<>>
    /\ Head(signals).type = "message"
    /\ signals' = Tail(signals)
    /\ LET m    == Head(signals).req
           code == parse_request(msgs[m])
       IN  /\ current_request' = m
           /\ response_sent' = FALSE
           /\ IF code # "ok"
              THEN /\ stdout' = Append(stdout,
                           [req |-> m, resp |-> request_error(m, code)])
                   /\ UNCHANGED sign_btn
              ELSE /\ sign_btn' = update_ui_state(m, signing_in_progress)
                   /\ UNCHANGED stdout
    /\ UNCHANGED <<stdinVars, cancel_requested, signing_in_progress, cancel_btn,
                   window, runs, alive, workerVars, emitted, log>>

\* _handle_message: slot of message_received.
handle_message ==
    /\ alive
    /\ UNCHANGED sideVars
    /\ window = "open"
    /\ signals # <<>>
    /\ Head(signals).type = "message"
    /\ signals' = Tail(signals)
    /\ LET m    == Head(signals).req
           code == parse_request(msgs[m])
       IN  IF code # "ok"
           THEN /\ stdout' = Append(stdout,
                        [req |-> m, resp |-> request_error(m, code)])
                /\ UNCHANGED <<current_request, response_sent, sign_btn>>
           ELSE /\ current_request' = m
                /\ response_sent' = FALSE
                /\ sign_btn' = update_ui_state(m, signing_in_progress)
                /\ UNCHANGED stdout
    /\ UNCHANGED <<stdinVars, cancel_requested, signing_in_progress, cancel_btn,
                   window, runs, alive, workerVars, emitted, log>>

\* _on_sign_clicked: the Sign button is enabled, a PIN is typed and a token
\* is selected; starts the sign-worker thread on the current request.
on_sign_clicked ==
    /\ alive
    /\ UNCHANGED sideVars
    /\ window = "open"
    /\ sign_btn
    /\ current_request # 0
    /\ runs < MaxRuns
    /\ wpc \in {"idle", "done"}
    /\ sign_btn' = FALSE
    /\ signing_in_progress' = TRUE
    /\ cancel_btn' = TRUE
    /\ cancel_requested' = FALSE
    /\ runs' = runs + 1
    /\ wpc' = "open"
    /\ wreq' = current_request
    /\ idx' = 0
    /\ cur' = NoObject
    /\ session' = "none"
    /\ results' = <<>>
    /\ errors' = <<>>
    /\ wfail' = "none"
    /\ UNCHANGED <<stdinVars, signals, current_request, response_sent, window,
                   alive, stdout, emitted, log>>

\* _on_cancel_clicked.
on_cancel_clicked ==
    /\ alive
    /\ UNCHANGED sideVars
    /\ window = "open"
    /\ cancel_btn
    /\ cancel_requested' = TRUE
    /\ cancel_btn' = FALSE
    /\ UNCHANGED <<stdinVars, signals, current_request, response_sent,
                   signing_in_progress, sign_btn, window, runs, alive,
                   workerVars, stdout, emitted, log>>

\* _on_signing_complete: slot of signing_complete.  Nothing is written to
\* stdout here.
on_signing_complete ==
    /\ alive
    /\ UNCHANGED sideVars
    /\ window = "open"
    /\ signals # <<>>
    /\ Head(signals).type = "complete"
    /\ signals' = Tail(signals)
    /\ response_sent' = TRUE
    /\ cancel_btn' = FALSE
    /\ signing_in_progress' = FALSE
    /\ current_request' = 0
    /\ sign_btn' = update_ui_state(0, FALSE)
    /\ UNCHANGED <<stdinVars, cancel_requested, window, runs, alive,
                   workerVars, stdout, emitted, log>>

\* A _send_error_callbacks_for_all that stops after the first object.
ErrorCallbacksForAll_first(r, code, by) ==
    <<Entry(r, resolve_objects(msgs[r])[1], "error", code, by)>>

\* The send_error POSTs of _send_error_callbacks_for_all(raw, code): one per
\* resolved object of the request, in declaration order.
ErrorCallbacksForAll(r, code, by) ==
    [i \in 1..Len(resolve_objects(msgs[r])) |->
        Entry(r, resolve_objects(msgs[r])[i], "error", code, by)]

\* closeEvent: the operator (or the auto-close timer) closes the window.
\* With a pending request and no response yet, it sets the flags and runs
\* _send_error_callbacks_for_all on the main thread; then super().closeEvent.
closeEvent ==
    /\ alive
    /\ UNCHANGED sideVars
    /\ window = "open"
    /\ window' = "closed"
    /\ IF current_request # 0 /\ ~response_sent
       THEN /\ cancel_requested' = TRUE
            /\ response_sent' = TRUE
            /\ LET posts == ErrorCallbacksForAll(current_request,
                                                  "CANCELLED_BY_USER", "main")
               IN  \E answers \in [DOMAIN posts -> callback_answers] :
                      log' = Record(AnsweredAll(posts, answers))
       ELSE UNCHANGED <<cancel_requested, response_sent, log>>
    /\ UNCHANGED <<stdinVars, signals, current_request, signing_in_progress,
                   sign_btn, cancel_btn, runs, alive, workerVars, stdout, emitted>>

\* run_gui: the last window is closed, app.exec() returns and sys.exit ends
\* the process; the daemon threads (stdin-listener, sign-worker) stop where
\* they are.
run_gui_exit ==
    /\ alive
    /\ UNCHANGED sideVars
    /\ window = "closed"
    /\ alive' = FALSE
    /\ UNCHANGED <<stdinVars, signals, mainVars, workerVars, stdout, emitted, log>>


\* ---- gui/app.py: the sign-worker thread ---------------------------------
\* Exceptions token.open(user_pin=pin) can raise out of open_session.
OpenExceptions ==
    {"PinIncorrect", "PinLocked", "PinExpired", "TokenNotPresent", "RuntimeError"}

\* Exceptions that leave process_request (none does: see ProcessRequestCatches).
EngineExceptions == {"UnicodeEncodeError"}

\* An `except Exception` without the branches for the PIN exceptions.
ExcCode_nopin(exc) ==
    IF exc \in {"TokenNotPresent", "DeviceRemoved"} THEN "CERT_NOT_FOUND"
    ELSE IF exc \in {"DeviceError", "PKCS11Error"} THEN "SIGN_FAILED"
    ELSE "INTERNAL_ERROR"

\* _sign_worker, `except Exception`: the error code an exception maps to.
ExcCode(exc) ==
    IF exc \in {"PinIncorrect", "PinLocked", "PinExpired"} THEN "SIGN_FAILED"
    ELSE IF exc \in {"TokenNotPresent", "DeviceRemoved"} THEN "CERT_NOT_FOUND"
    ELSE IF exc \in {"DeviceError", "PKCS11Error"} THEN "SIGN_FAILED"
    ELSE "INTERNAL_ERROR"

\* The code of the request-level error the worker reports for `wfail`.
FailCode(why) ==
    IF why \in {"cert_none", "key_none"} THEN "CERT_NOT_FOUND" ELSE ExcCode(why)

\* The worker enters a request-level error path: build_request_error, then
\* _send_error_callbacks_for_all, then signing_complete.
RequestError(why) ==
    /\ wfail' = why
    /\ wpc' = "reqerr"
    /\ idx' = 1

\* _sign_worker: parse_request(raw_request) and open_session(slot, pin).
sign_worker_open_session ==
    /\ alive
    /\ UNCHANGED sideVars
    /\ wpc = "open"
    /\ \E out \in {"ok"} \cup OpenExceptions :
        IF out = "ok"
        THEN /\ session' = "open"
             /\ wpc' = "findcert"
             /\ UNCHANGED <<wfail, idx>>
        ELSE /\ RequestError(out)
             /\ UNCHANGED session
    /\ UNCHANGED <<stdinVars, signals, mainVars, alive, wreq, cur, results, errors,
                   stdout, emitted, log>>

\* _sign_worker: find_certificate_by_id; None is CERT_NOT_FOUND and return.
sign_worker_find_certificate ==
    /\ alive
    /\ UNCHANGED sideVars
    /\ wpc = "findcert"
    /\ \E out \in {"found", "none", "TokenNotPresent"} :
        IF out = "found"
        THEN /\ wpc' = "findkey"
             /\ UNCHANGED <<wfail, idx>>
        ELSE RequestError(IF out = "none" THEN "cert_none" ELSE out)
    /\ UNCHANGED <<stdinVars, signals, mainVars, alive, wreq, cur, session, results,
                   errors, stdout, emitted, log>>

\* _sign_worker: find_private_key; None is CERT_NOT_FOUND and return.
\* Found: process_request starts (ResponseBuilder(), resolve_objects).
sign_worker_find_private_key ==
    /\ alive
    /\ UNCHANGED sideVars
    /\ wpc = "findkey"
    /\ \E out \in {"found", "none", "TokenNotPresent"} :
        IF out = "found"
        THEN /\ wpc' = "check"
             /\ idx' = 1
             /\ UNCHANGED wfail
        ELSE RequestError(IF out = "none" THEN "key_none" ELSE out)
    /\ results' = <<>>
    /\ errors' = <<>>
    /\ UNCHANGED <<stdinVars, signals, mainVars, alive, wreq, cur, session,
                   stdout, emitted, log>>

\* A request-level error path that emits the response without notifying
\* the objects' onError endpoints.
sign_worker_request_error_nocallbacks ==
    /\ alive
    /\ UNCHANGED sideVars
    /\ wpc = "reqerr"
    /\ emitted' = Append(emitted,
            [req |-> wreq, resp |-> request_error(wreq, FailCode(wfail))])
    /\ signals' = Append(signals,
            [type |-> "complete", req |-> wreq,
             resp |-> request_error(wreq, FailCode(wfail))])
    /\ wpc' = "finally"
    /\ UNCHANGED <<stdinVars, mainVars, alive, wreq, idx, cur, session, results,
                   errors, wfail, stdout, log>>

\* _send_error_callbacks_for_all on the worker thread: one send_error POST
\* per resolved object; after the last, signing_complete.emit(error_resp).
sign_worker_request_error ==
    /\ alive
    /\ UNCHANGED sideVars
    /\ wpc = "reqerr"
    /\ IF idx <= Len(resolve_objects(msgs[wreq]))
       THEN /\ \E answer \in callback_answers :
                log' = Record(<<Answered(Entry(wreq, resolve_objects(msgs[wreq])[idx],
                                               "error", FailCode(wfail), "worker"),
                                         answer)>>)
            /\ idx' = idx + 1
            /\ UNCHANGED <<wpc, emitted, signals>>
       ELSE /\ emitted' = Append(emitted,
                    [req |-> wreq, resp |-> request_error(wreq, FailCode(wfail))])
            /\ signals' = Append(signals,
                    [type |-> "complete", req |-> wreq,
                     resp |-> request_error(wreq, FailCode(wfail))])
            /\ wpc' = "finally"
            /\ UNCHANGED <<log, idx>>
    /\ UNCHANGED <<stdinVars, mainVars, alive, wreq, cur, session, results, errors,
                   wfail, stdout>>

\* _sign_worker, `finally`: session.close() when a session was opened.
sign_worker_finally ==
    /\ alive
    /\ UNCHANGED sideVars
    /\ wpc = "finally"
    /\ session' = IF session = "open" THEN "closed" ELSE session
    /\ wpc' = "done"
    /\ UNCHANGED <<stdinVars, signals, mainVars, alive, wreq, idx, cur, results,
                   errors, wfail, stdout, emitted, log>>

\* A safety net that only expects the error types of the network layer.
ProcessRequestCatches_narrow(exc) == exc \in {"DownloadError", "UploadError"}

\* ---- processing/engine.py -----------------------------------------------
\* process_request, `except Exception` around _process_single_object.
ProcessRequestCatches(exc) == TRUE

\* _try_progress_callback returns at once when callbacks.progress is unset.
ProgressOr(pcProgress, pcNext, obj) == IF obj.progress THEN pcProgress ELSE pcNext

\* An error path that records the error but never calls _try_error_callback.
ObjectFailed_nocallback(before, code) ==
    /\ errors' = Append(errors, [id |-> idx, code |-> code])
    /\ log' = Record(before)
    /\ idx' = idx + 1
    /\ wpc' = "check"
    /\ UNCHANGED <<results, wfail, cur>>

\* builder.add_error(ObjectError(obj.id, code, ..)); _try_error_callback(..);
\* the object is finished and the loop goes on with the next one.
\* `before` is what the failing step itself put on the wire.
ObjectFailed(before, code) ==
    /\ errors' = Append(errors, [id |-> idx, code |-> code])
    /\ \E answer \in callback_answers :
        log' = Record(before \o <<Answered(Entry(wreq, idx, "error", code, "worker"),
                                           answer)>>)
    /\ idx' = idx + 1
    /\ wpc' = "check"
    /\ UNCHANGED <<results, wfail, cur>>

\* process_request, top of the loop: the cancellation check, else
\* _process_single_object begins (GUI progress, then the first progress POST).
process_request_loop ==
    /\ alive
    /\ UNCHANGED sideVars
    /\ wpc = "check"
    /\ IF idx > Len(resolve_objects(msgs[wreq]))
       THEN /\ wpc' = "build"
            /\ UNCHANGED <<errors, log, cur>>
       ELSE IF cancel_requested
       THEN /\ errors' = Append(errors, [id |-> idx, code |-> "CANCELLED_BY_USER"])
            /\ \E answer \in callback_answers :
                log' = Record(<<Answered(Entry(wreq, idx, "error",
                                               "CANCELLED_BY_USER", "worker"), answer)>>)
            /\ wpc' = "build"
            /\ UNCHANGED cur
       ELSE /\ \E shape \in ObjectShapes :
                /\ cur' = [inline |-> shape.inline, progress |-> shape.progress,
                            pfail |-> FALSE]
                /\ wpc' = ProgressOr("prog0", "content", shape)
            /\ UNCHANGED <<errors, log>>
    /\ UNCHANGED <<stdinVars, signals, mainVars, alive, wreq, idx, session, results,
                   wfail, stdout, emitted>>

\* _try_progress_callback: send_progress POST.  A non-2xx answer (or a
\* transport error) raises CallbackError, which is logged and turned into the
\* return value False; no caller reads it.  cur.pfail remembers that a
\* progress POST of the current object was answered non-2xx.
try_progress_callback ==
    /\ alive
    /\ UNCHANGED sideVars
    /\ wpc \in {"prog0", "prog50", "prog75"}
    /\ log' = Record(<<Entry(wreq, idx, "progress", "sent", "worker")>>)
    /\ \E out \in {"2xx", "non2xx"} :
        cur' = [cur EXCEPT !.pfail = cur.pfail \/ out = "non2xx"]
    /\ wpc' = CASE wpc = "prog0"  -> "content"
              []   wpc = "prog50" -> "sign"
              []   wpc = "prog75" -> "upload"
    /\ UNCHANGED <<stdinVars, signals, mainVars, alive, wreq, idx, session,
                   results, errors, wfail, stdout, emitted>>

\* _process_single_object, step 2: inline content is encoded, remote content
\* is downloaded.  DownloadError is handled here; anything else propagates to
\* process_request.
acquire_content ==
    /\ alive
    /\ UNCHANGED sideVars
    /\ wpc = "content"
    /\ IF cur.inline
       THEN \E out \in {"ok"} \cup EngineExceptions :
              IF out = "ok"
              THEN /\ wpc' = ProgressOr("prog50", "sign", cur)
                   /\ UNCHANGED <<errors, log, idx, results, wfail, cur>>
              ELSE IF ProcessRequestCatches(out)
              THEN ObjectFailed(<<>>, "INTERNAL_ERROR")
              ELSE /\ RequestError(out)
                   /\ UNCHANGED <<errors, log, results, cur>>
       ELSE \E out \in HttpOutcomes :
              IF out = "2xx"
              THEN /\ log' = Record(<<Entry(wreq, idx, "download", out, "worker")>>)
                   /\ wpc' = ProgressOr("prog50", "sign", cur)
                   /\ UNCHANGED <<errors, idx, results, wfail, cur>>
              ELSE ObjectFailed(<<Entry(wreq, idx, "download", out, "worker")>>,
                                DownloadCode(out))
    /\ UNCHANGED <<stdinVars, signals, mainVars, alive, wreq, session, stdout, emitted>>

\* A step 3 that reports a SigningError and then carries on with the upload.
sign_content_continues ==
    /\ alive
    /\ UNCHANGED sideVars
    /\ wpc = "sign"
    /\ \E out \in {"ok", "SIGN_FAILED", "INTERNAL_ERROR"} :
        /\ wpc' = ProgressOr("prog75", "upload", cur)
        /\ IF out = "ok"
           THEN /\ log' = Record(<<Entry(wreq, idx, "sign", out, "worker")>>)
                /\ UNCHANGED errors
           ELSE /\ log' = Record(<<Entry(wreq, idx, "sign", out, "worker"),
                                    Entry(wreq, idx, "error", out, "worker")>>)
                /\ errors' = Append(errors, [id |-> idx, code |-> out])
        /\ UNCHANGED <<idx, results, wfail, cur>>
    /\ UNCHANGED <<stdinVars, signals, mainVars, alive, wreq, session, stdout, emitted>>

\* _process_single_object, step 3: sign_content; SigningError is handled.
sign_content ==
    /\ alive
    /\ UNCHANGED sideVars
    /\ wpc = "sign"
    /\ \E out \in {"ok", "SIGN_FAILED", "INTERNAL_ERROR"} :
        IF out = "ok"
        THEN /\ log' = Record(<<Entry(wreq, idx, "sign", out, "worker")>>)
             /\ wpc' = ProgressOr("prog75", "upload", cur)
             /\ UNCHANGED <<errors, idx, results, wfail, cur>>
        ELSE ObjectFailed(<<Entry(wreq, idx, "sign", out, "worker")>>, out)
    /\ UNCHANGED <<stdinVars, signals, mainVars, alive, wreq, session, stdout, emitted>>

\* An upload step that tries again after a failed attempt.
upload_signed_content_retry ==
    /\ alive
    /\ UNCHANGED sideVars
    /\ wpc = "upload"
    /\ \E out \in HttpOutcomes :
        /\ log' = Record(<<Entry(wreq, idx, "upload", out, "worker")>>)
        /\ wpc' = IF out = "2xx" THEN "success" ELSE "upload"
        /\ UNCHANGED <<errors, idx, results, wfail, cur>>
    /\ UNCHANGED <<stdinVars, signals, mainVars, alive, wreq, session, stdout, emitted>>

\* _process_single_object, step 4: upload_signed_content; UploadError is handled.
upload_signed_content ==
    /\ alive
    /\ UNCHANGED sideVars
    /\ wpc = "upload"
    /\ \E out \in HttpOutcomes :
        IF out = "2xx"
        THEN /\ log' = Record(<<Entry(wreq, idx, "upload", out, "worker")>>)
             /\ wpc' = "success"
             /\ UNCHANGED <<errors, idx, results, wfail, cur>>
        ELSE ObjectFailed(<<Entry(wreq, idx, "upload", out, "worker")>>, UploadCode(out))
    /\ UNCHANGED <<stdinVars, signals, mainVars, alive, wreq, session, stdout, emitted>>

\* A step 5 that treats an unanswered success callback as a failure of the
\* object.
send_success_strict ==
    /\ alive
    /\ UNCHANGED sideVars
    /\ wpc = "success"
    /\ \E answer \in callback_answers :
        /\ log' = Record(<<Answered(Entry(wreq, idx, "success", "completed", "worker"),
                                    answer)>>)
        /\ IF answer = "2xx"
           THEN results' = Append(results, idx) /\ UNCHANGED errors
           ELSE /\ errors' = Append(errors, [id |-> idx, code |-> "CALLBACK_FAILED"])
                /\ UNCHANGED results
    /\ idx' = idx + 1
    /\ wpc' = "check"
    /\ UNCHANGED <<stdinVars, signals, mainVars, alive, wreq, cur, session,
                   wfail, stdout, emitted>>

\* _process_single_object, steps 5 and 6: send_success POST (its failure is
\* only logged), builder.add_result; back to the loop.
send_success ==
    /\ alive
    /\ UNCHANGED sideVars
    /\ wpc = "success"
    /\ \E answer \in callback_answers :
        log' = Record(<<Answered(Entry(wreq, idx, "success", "completed", "worker"),
                                 answer)>>)
    /\ results' = Append(results, idx)
    /\ idx' = idx + 1
    /\ wpc' = "check"
    /\ UNCHANGED <<stdinVars, signals, mainVars, alive, wreq, cur, session, errors,
                   wfail, stdout, emitted>>

\* builder.build() of the ResponseBuilder(request.request_id,
\* request.metadata) that process_request fills.
EngineResponse == build(results, errors, request_metadata(msgs[wreq]))

\* process_request returns builder.build(); _sign_worker emits signing_complete.
process_request_return ==
    /\ alive
    /\ UNCHANGED sideVars
    /\ wpc = "build"
    /\ emitted' = Append(emitted, [req |-> wreq, resp |-> EngineResponse])
    /\ signals' = Append(signals,
            [type |-> "complete", req |-> wreq, resp |-> EngineResponse])
    /\ wpc' = "finally"
    /\ UNCHANGED <<stdinVars, mainVars, alive, wreq, idx, cur, session, results,
                   errors, wfail, stdout, log>>

\* ---- the host -----------------------------------------------------------
Next ==
    \/ stdin_loop_message
    \/ stdin_loop_eof
    \/ handle_message
    \/ on_sign_clicked
    \/ on_cancel_clicked
    \/ on_signing_complete
    \/ closeEvent
    \/ run_gui_exit
    \/ sign_worker_open_session
    \/ sign_worker_find_certificate
    \/ sign_worker_find_private_key
    \/ sign_worker_request_error
    \/ sign_worker_finally
    \/ process_request_loop
    \/ try_progress_callback
    \/ acquire_content
    \/ sign_content
    \/ upload_signed_content
    \/ send_success
    \/ process_request_return

Spec == Init /\ [][Next]_vars

\* ---- the host on frames with any metadata --------------------------------
\* _stdin_loop, one iteration with a frame, whatever is under its metadata
\* key.
stdin_loop_message_metadata ==
    /\ alive
    /\ UNCHANGED sideVars
    /\ stdin = "reading"
    /\ Len(msgs) < MaxMsgs
    /\ \E raw \in MetadataMessages :
        /\ msgs' = Append(msgs, raw)
        /\ signals' = Append(signals,
                [type |-> "message", req |-> Len(msgs) + 1, resp |-> NoResp])
    /\ UNCHANGED <<stdin, mainVars, workerVars, alive, stdout, emitted, log>>

NextMetadata ==
    \/ stdin_loop_message_metadata
    \/ stdin_loop_eof
    \/ handle_message
    \/ on_sign_clicked
    \/ on_cancel_clicked
    \/ on_signing_complete
    \/ closeEvent
    \/ run_gui_exit
    \/ sign_worker_open_session
    \/ sign_worker_find_certificate
    \/ sign_worker_find_private_key
    \/ sign_worker_request_error
    \/ sign_worker_finally
    \/ process_request_loop
    \/ try_progress_callback
    \/ acquire_content
    \/ sign_content
    \/ upload_signed_content
    \/ send_success
    \/ process_request_return

\* The host with the traffic of the latest step recorded.
InitLatest ==
    /\ Constructed
    /\ recording = "last"
    /\ callback_answers = {"2xx"}
    /\ NoLookup
    /\ NoUpload
    /\ envelope = NoEnvelope
    /\ validated = NotValidated
    /\ stream = <<>>
    /\ writes = <<>>

SpecMetadata == InitLatest /\ [][NextMetadata]_vars

\* ---- the host with callback endpoints that can fail ------------------------
\* The host with its traffic recorded and onSuccess/onError endpoints that
\* answer 2xx, answer non-2xx, time out or refuse the connection.
InitCallbacks ==
    /\ Constructed
    /\ recording = "last"
    /\ callback_answers = HttpOutcomes
    /\ NoLookup
    /\ NoUpload
    /\ envelope = NoEnvelope
    /\ validated = NotValidated
    /\ stream = <<>>
    /\ writes = <<>>

SpecCallbacks == InitCallbacks /\ [][Next]_vars

\* ---- the host with a token that can be removed while an object is signed --
\* sign_text, sign_binary, sign_pdf, sign_xml: the code of the SigningError
\* that an exception out of private_key.sign is turned into.
SigningErrorCode(exc) == "SIGN_FAILED"

\* _process_single_object, step 3, when the token is removed while
\* private_key.sign runs: PKCS#11 raises TokenNotPresent, the signer raises a
\* SigningError in its place and the engine handles that.
sign_content_token_removed ==
    /\ alive
    /\ UNCHANGED sideVars
    /\ wpc = "sign"
    /\ ObjectFailed(<<Entry(wreq, idx, "sign", "TokenNotPresent", "worker")>>,
                    SigningErrorCode("TokenNotPresent"))
    /\ UNCHANGED <<stdinVars, signals, mainVars, alive, wreq, session, stdout, emitted>>

NextRemoval ==
    \/ Next
    \/ sign_content_token_removed

SpecRemoval == InitLatest /\ [][NextRemoval]_vars

\* ---- gui/app.py: token enumeration --------------------------------------
\* A _refresh_tokens that starts a thread on every tick.
refresh_tokens_nocheck ==
    /\ alive
    /\ window = "open"
    /\ ticks < MaxTicks
    /\ ticks' = ticks + 1
    /\ token_refresh_in_progress' = TRUE
    /\ refresh_workers' = refresh_workers + 1
    /\ UNCHANGED <<stdinVars, signals, mainVars, alive, workerVars, stdout,
                   emitted, log, recording, callback_answers, certVars, uploadVars, validationVars, framingVars>>

\* _refresh_tokens: slot of the 5 s timer and of the Refresh button (the
\* library is loaded).  A tick during an enumeration does nothing; otherwise
\* it sets the flag and starts a token-refresh thread.
refresh_tokens ==
    /\ alive
    /\ window = "open"
    /\ ticks < MaxTicks
    /\ ticks' = ticks + 1
    /\ IF token_refresh_in_progress
       THEN UNCHANGED <<token_refresh_in_progress, refresh_workers>>
       ELSE /\ token_refresh_in_progress' = TRUE
            /\ refresh_workers' = refresh_workers + 1
    /\ UNCHANGED <<stdinVars, signals, mainVars, alive, workerVars, stdout,
                   emitted, log, recording, callback_answers, certVars, uploadVars, validationVars, framingVars>>

\* _token_refresh_worker: get_token_slots returns and tokens_refreshed is
\* emitted, or it raises and the exception is logged; the finally block
\* clears the flag and the thread ends.
token_refresh_worker ==
    /\ alive
    /\ refresh_workers > 0
    /\ \E raised \in BOOLEAN :
        signals' = IF raised THEN signals
                   ELSE Append(signals, [type |-> "tokens", req |-> 0, resp |-> NoResp])
    /\ token_refresh_in_progress' = FALSE
    /\ refresh_workers' = refresh_workers - 1
    /\ UNCHANGED <<stdinVars, mainVars, alive, workerVars, stdout, emitted, log,
                   recording, callback_answers, certVars, uploadVars, ticks, validationVars,
                   framingVars>>

\* _on_tokens_refreshed: slot of tokens_refreshed; the combo box is refilled
\* and _update_ui_state recomputes the Sign button.
on_tokens_refreshed ==
    /\ alive
    /\ window = "open"
    /\ signals # <<>>
    /\ Head(signals).type = "tokens"
    /\ signals' = Tail(signals)
    /\ sign_btn' = update_ui_state(current_request, signing_in_progress)
    /\ UNCHANGED <<stdinVars, current_request, cancel_requested, response_sent,
                   signing_in_progress, cancel_btn, window, runs, alive,
                   workerVars, stdout, emitted, log, sideVars>>

\* The host with its token enumeration; the traffic is not recorded.
InitTokens ==
    /\ Constructed
    /\ recording = "none"
    /\ callback_answers = {"2xx"}
    /\ NoLookup
    /\ NoUpload
    /\ envelope = NoEnvelope
    /\ validated = NotValidated
    /\ stream = <<>>
    /\ writes = <<>>

NextTokens ==
    \/ Next
    \/ refresh_tokens
    \/ token_refresh_worker
    \/ on_tokens_refreshed

SpecTokens == InitTokens /\ [][NextTokens]_vars


\* ---- the envelope in detail ---------------------------------------------
\* What the validator and the resolver look at in a request envelope.  A
\* string field is "" when it is missing, empty or not a string; a URL is the
\* sequence of its parts, <<>> when missing or empty, with "<objectId>" a part
\* of its own; inline content is given by its length in bytes.  requestId,
\* appId, cert, upload, callbacks and pdfOptions are present and well-formed.
Ids == {"", "a", "b"}
DataTypes == {"text", "pdf", "other"}
Modes == {"inline", "remote", "other"}
Sizes == {0, 1, MAX_INLINE_SIZE_BYTES, MAX_INLINE_SIZE_BYTES + 1}
Urls == {<<>>, <<"u">>, <<"u", "<objectId>">>}

\* Entries of objects[].
RawObjects ==
    [id : Ids, dataType : DataTypes, mode : Modes, content : Sizes,
     downloadUrl : {<<>>, <<"u">>}]

\* Entries of the objects[] of a group, and groups with k of them.
RawGroupObjects == [id : Ids, value : Sizes]

RawGroups(k) ==
    [dataType : DataTypes, mode : Modes, downloadUrl : Urls,
     objects : [1..k -> RawGroupObjects]]

\* An envelope as read from a frame.
Envelope(pv, has_objects, has_groups, objects, groups) ==
    [pv |-> pv, has_objects |-> has_objects, has_groups |-> has_groups,
     objects |-> objects, objectGroups |-> groups]

\* Envelopes in the objects form: up to MaxObjs objects.
ObjectsEnvelope(e) ==
    \E k \in 0..MaxObjs : \E objs \in [1..k -> RawObjects] :
        e = Envelope("1.0", TRUE, FALSE, objs, <<>>)

\* Envelopes in the objectGroups form: no group, one or two, holding up to
\* MaxObjs objects in all.
GroupsEnvelope(e) ==
    \/ e = Envelope("1.0", FALSE, TRUE, <<>>, <<>>)
    \/ \E k \in 0..MaxObjs : \E g \in RawGroups(k) :
        e = Envelope("1.0", FALSE, TRUE, <<>>, <<g>>)
    \/ \E k \in 0..MaxObjs : \E l \in 0..(MaxObjs - k) :
        \E g \in RawGroups(k), h \in RawGroups(l) :
            e = Envelope("1.0", FALSE, TRUE, <<>>, <<g, h>>)

\* Envelopes of another or of no protocol version, and envelopes with both
\* keys or neither: at most one object.
OtherEnvelope(e) ==
    \E pv \in {"1.0", "2.0", "missing"}, ho \in BOOLEAN, hg \in BOOLEAN :
        \E k \in 0..1 : \E objs \in [1..k -> RawObjects] :
            /\ pv = "1.0" => (ho <=> hg)
            /\ e = Envelope(pv, ho, hg, objs, <<>>)

\* ---- messaging/native_io.py ---------------------------------------------
\* Bytes of inline content an envelope carries; its frame is longer still.
RECURSIVE SumSizes(_)
SumSizes(sizes) ==
    IF sizes = <<>> THEN 0 ELSE Head(sizes) + SumSizes(Tail(sizes))

RECURSIVE Concat(_)
Concat(seqs) ==
    IF seqs = <<>> THEN <<>> ELSE Head(seqs) \o Concat(Tail(seqs))

ContentBytes(env) ==
    SumSizes([i \in DOMAIN env.objects |-> env.objects[i].content])
    + SumSizes(Concat([g \in DOMAIN env.objectGroups |->
            [i \in DOMAIN env.objectGroups[g].objects |->
                env.objectGroups[g].objects[i].value]]))

\* read_message: a frame whose declared length exceeds MAX_MESSAGE_SIZE is
\* not read (None is returned).  The frame is longer than the content in it.
read_message_too_large(env) == ContentBytes(env) + 1 > MAX_MESSAGE_SIZE

\* ---- messaging/request_parser.py, in detail -----------------------------
\* The first code of `codes` that is not "ok" (the first exception raised).
FirstFailure(codes) ==
    IF \E i \in DOMAIN codes : codes[i] # "ok"
    THEN codes[CHOOSE i \in DOMAIN codes :
                    codes[i] # "ok" /\ \A j \in 1..(i - 1) : codes[j] = "ok"]
    ELSE "ok"

\* A _parse_content that takes an empty content or downloadUrl.
parse_content_noempty(o) ==
    IF o.mode \in {"inline", "remote"} THEN "ok" ELSE "BAD_REQUEST"

\* _parse_content.
parse_content(o) ==
    IF o.mode = "inline"
    THEN (IF o.content = 0 THEN "BAD_REQUEST" ELSE "ok")
    ELSE IF o.mode = "remote"
    THEN (IF o.downloadUrl = <<>> THEN "BAD_REQUEST" ELSE "ok")
    ELSE "BAD_REQUEST"

\* A _parse_object without the remote-only rule for pdf and binary.
parse_object_noremoteonly(o) ==
    IF o.id = "" THEN "BAD_REQUEST"
    ELSE IF o.dataType \notin SUPPORTED_DATA_TYPES THEN "UNSUPPORTED_TYPE"
    ELSE parse_content(o)

\* _parse_object.
parse_object(o) ==
    IF o.id = "" THEN "BAD_REQUEST"
    ELSE IF o.dataType \notin SUPPORTED_DATA_TYPES THEN "UNSUPPORTED_TYPE"
    ELSE IF parse_content(o) # "ok" THEN parse_content(o)
    ELSE IF o.dataType \in REMOTE_ONLY_TYPES /\ o.mode = "inline" THEN "BAD_REQUEST"
    ELSE "ok"

\* _parse_group: one inner object of a group of the given mode.
parse_group_object(mode, ro) ==
    IF ro.id = "" THEN "BAD_REQUEST"
    ELSE IF mode = "inline" /\ ro.value = 0 THEN "BAD_REQUEST"
    ELSE "ok"

\* A _parse_group that does not look for the placeholder in downloadUrl.
parse_group_noplaceholder(g) ==
    IF g.dataType \notin SUPPORTED_DATA_TYPES THEN "UNSUPPORTED_TYPE"
    ELSE IF g.mode \notin {"inline", "remote"} THEN "BAD_REQUEST"
    ELSE IF g.dataType \in REMOTE_ONLY_TYPES /\ g.mode = "inline" THEN "BAD_REQUEST"
    ELSE IF g.mode = "remote" /\ g.downloadUrl = <<>> THEN "BAD_REQUEST"
    ELSE IF g.objects = <<>> THEN "BAD_REQUEST"
    ELSE FirstFailure([i \in DOMAIN g.objects |->
                            parse_group_object(g.mode, g.objects[i])])

\* _parse_group.
parse_group(g) ==
    IF g.dataType \notin SUPPORTED_DATA_TYPES THEN "UNSUPPORTED_TYPE"
    ELSE IF g.mode \notin {"inline", "remote"} THEN "BAD_REQUEST"
    ELSE IF g.dataType \in REMOTE_ONLY_TYPES /\ g.mode = "inline" THEN "BAD_REQUEST"
    ELSE IF g.mode = "remote" /\ g.downloadUrl = <<>> THEN "BAD_REQUEST"
    ELSE IF g.mode = "remote"
            /\ ~ \E i \in DOMAIN g.downloadUrl : g.downloadUrl[i] = "<objectId>"
    THEN "BAD_REQUEST"
    ELSE IF g.objects = <<>> THEN "BAD_REQUEST"
    ELSE FirstFailure([i \in DOMAIN g.objects |->
                            parse_group_object(g.mode, g.objects[i])])

\* A parse_request that takes an envelope with both keys as the objects form.
parse_envelope_noboth(env) ==
    IF env.pv = "missing" THEN "BAD_REQUEST"
    ELSE IF env.pv # PROTOCOL_VERSION THEN "UNSUPPORTED_VERSION"
    ELSE IF ~env.has_objects /\ ~env.has_groups THEN "BAD_REQUEST"
    ELSE IF env.has_objects
    THEN (IF env.objects = <<>> THEN "BAD_REQUEST"
          ELSE FirstFailure([i \in DOMAIN env.objects |->
                                parse_object(env.objects[i])]))
    ELSE (IF env.objectGroups = <<>> THEN "BAD_REQUEST"
          ELSE FirstFailure([g \in DOMAIN env.objectGroups |->
                                parse_group(env.objectGroups[g])]))

\* parse_request on a detailed envelope: "ok" or the code raised.
parse_envelope(env) ==
    IF env.pv = "missing" THEN "BAD_REQUEST"
    ELSE IF env.pv # PROTOCOL_VERSION THEN "UNSUPPORTED_VERSION"
    ELSE IF env.has_objects /\ env.has_groups THEN "BAD_REQUEST"
    ELSE IF ~env.has_objects /\ ~env.has_groups THEN "BAD_REQUEST"
    ELSE IF env.has_objects
    THEN (IF env.objects = <<>> THEN "BAD_REQUEST"
          ELSE FirstFailure([i \in DOMAIN env.objects |->
                                parse_object(env.objects[i])]))
    ELSE (IF env.objectGroups = <<>> THEN "BAD_REQUEST"
          ELSE FirstFailure([g \in DOMAIN env.objectGroups |->
                                parse_group(env.objectGroups[g])]))

\* ---- processing/object_resolver.py, in detail ---------------------------
\* _sub_id: every "<objectId>" part of the template replaced by the id.
sub_id(template, id) ==
    [i \in DOMAIN template |->
        IF template[i] = "<objectId>" THEN id ELSE template[i]]

\* A ResolvedObject: inline_set / url_set say which of inline_content and
\* download_url has been assigned (is not None); both start as None.
ResolvedObject(id, dataType, mode, content, url) ==
    [id |-> id, data_type |-> dataType,
     inline_set |-> (mode = "inline"),
     inline_content |-> IF mode = "inline" THEN content ELSE 0,
     url_set |-> (mode = "remote"),
     download_url |-> IF mode = "remote" THEN url ELSE <<>>]

\* _resolve_from_objects (the objects have passed _parse_object).
resolve_from_objects(objects) ==
    [i \in DOMAIN objects |->
        ResolvedObject(objects[i].id, objects[i].dataType,
                       objects[i].mode,
                       objects[i].content, objects[i].downloadUrl)]

\* A _resolve_from_groups that walks the groups last to first.
resolve_from_groups_reversed(groups) ==
    Concat([g \in DOMAIN groups |->
        LET grp == groups[Len(groups) + 1 - g]
        IN  [i \in DOMAIN grp.objects |->
                ResolvedObject(grp.objects[i].id, grp.dataType, grp.mode,
                               grp.objects[i].value,
                               sub_id(grp.downloadUrl, grp.objects[i].id))]])

\* _resolve_from_groups (the groups have passed _parse_group).
resolve_from_groups(groups) ==
    Concat([g \in DOMAIN groups |->
        [i \in DOMAIN groups[g].objects |->
            ResolvedObject(groups[g].objects[i].id, groups[g].dataType,
                           groups[g].mode,
                           groups[g].objects[i].value,
                           sub_id(groups[g].downloadUrl, groups[g].objects[i].id))]])

\* resolve_objects on a detailed envelope that parse_request accepted.
resolve_envelope(env) ==
    IF env.has_objects THEN resolve_from_objects(env.objects)
    ELSE resolve_from_groups(env.objectGroups)

\* ---- the validator on its own: one frame, read, parsed and resolved ------
\* _stdin_loop, _handle_message and process_request on one envelope: the
\* frame is dropped by read_message, or rejected by parse_request, or
\* accepted and resolved.
validate_envelope ==
    /\ validated = NotValidated
    /\ validated' =
        IF read_message_too_large(envelope)
        THEN [code |-> "dropped", resolved |-> <<>>]
        ELSE IF parse_envelope(envelope) # "ok"
        THEN [code |-> parse_envelope(envelope), resolved |-> <<>>]
        ELSE [code |-> "ok", resolved |-> resolve_envelope(envelope)]
    /\ UNCHANGED <<stdinVars, signals, mainVars, alive, workerVars, stdout,
                   emitted, log, recording, callback_answers, certVars, uploadVars, tokenVars, envelope,
                   framingVars>>

InitValidation ==
    /\ Constructed
    /\ recording = "none"
    /\ callback_answers = {"2xx"}
    /\ NoLookup
    /\ NoUpload
    /\ \/ ObjectsEnvelope(envelope)
       \/ GroupsEnvelope(envelope)
       \/ OtherEnvelope(envelope)
    /\ validated = NotValidated
    /\ stream = <<>>
    /\ writes = <<>>

NextValidation == validate_envelope

SpecValidation == InitValidation /\ [][NextValidation]_vars

\* ---- the framing on its own: native_io.py and the reader loop ------------
\* Lengths of a frame: of its body as declared in the prefix, of what is
\* there to read, of an outgoing message once encoded.
FrameLengths == {0, 1, MAX_MESSAGE_SIZE, MAX_MESSAGE_SIZE + 1}

\* A frame to come on stdin: the bytes of its length prefix that arrive (4 is
\* all of them), the length the prefix declares, the bytes of the body that
\* arrive, and whether the body is JSON.
Frames ==
    {f \in [prefix : {3, 4}, length : FrameLengths, body : FrameLengths,
             json : BOOLEAN] : f.body <= f.length}

\* What can be to come on stdin; after the last frame the stream is at its
\* end and a read returns no bytes.
Streams == UNION {[1..k -> Frames] : k \in 0..MaxMsgs}

\* A read_message that takes frames up to one byte less than the limit.
read_message_exclusive(f) ==
    IF f.prefix < 4 THEN "short_prefix"
    ELSE IF f.length = 0 THEN "zero_length"
    ELSE IF f.length >= MAX_MESSAGE_SIZE THEN "too_large"
    ELSE IF f.body < f.length THEN "short_body"
    ELSE IF ~f.json THEN "invalid_json"
    ELSE "message"

\* read_message on the next frame: "message" when a dict is returned, else
\* the reason for which None is returned.
read_message(f) ==
    IF f.prefix < 4 THEN "short_prefix"
    ELSE IF f.length = 0 THEN "zero_length"
    ELSE IF f.length > MAX_MESSAGE_SIZE THEN "too_large"
    ELSE IF f.body < f.length THEN "short_body"
    ELSE IF ~f.json THEN "invalid_json"
    ELSE "message"

\* A _stdin_loop that goes on to the next frame when the body of one comes
\* short.
stdin_loop_read_skips ==
    /\ alive
    /\ stdin = "reading"
    /\ IF stream = <<>>
       THEN /\ stdin' = "short_prefix"
            /\ UNCHANGED <<msgs, signals, stream>>
       ELSE LET f == Head(stream)
            IN  IF read_message(f) = "message"
                THEN /\ msgs' = Append(msgs, [length |-> f.length, decoded |-> f.body])
                     /\ signals' = Append(signals,
                            [type |-> "message", req |-> Len(msgs) + 1, resp |-> NoResp])
                     /\ stream' = Tail(stream)
                     /\ UNCHANGED stdin
                ELSE IF read_message(f) = "short_body"
                THEN /\ stream' = Tail(stream)
                     /\ UNCHANGED <<stdin, msgs, signals>>
                ELSE /\ stdin' = read_message(f)
                     /\ UNCHANGED <<msgs, signals, stream>>
    /\ UNCHANGED <<mainVars, workerVars, alive, stdout, emitted, log, recording, callback_answers, certVars, uploadVars,
                   tokenVars, validationVars, writes>>

\* _stdin_loop, one iteration on the stream: read_message returns a dict,
\* which is emitted as message_received, or None, and the loop breaks with
\* the rest of the stream unread.  stdin keeps the reason.
stdin_loop_read ==
    /\ alive
    /\ stdin = "reading"
    /\ IF stream = <<>>
       THEN /\ stdin' = "short_prefix"
            /\ UNCHANGED <<msgs, signals, stream>>
       ELSE LET f == Head(stream)
            IN  IF read_message(f) = "message"
                THEN /\ msgs' = Append(msgs, [length |-> f.length, decoded |-> f.body])
                     /\ signals' = Append(signals,
                            [type |-> "message", req |-> Len(msgs) + 1, resp |-> NoResp])
                     /\ stream' = Tail(stream)
                     /\ UNCHANGED stdin
                ELSE /\ stdin' = read_message(f)
                     /\ UNCHANGED <<msgs, signals, stream>>
    /\ UNCHANGED <<mainVars, workerVars, alive, stdout, emitted, log, recording, callback_answers, certVars, uploadVars,
                   tokenVars, validationVars, writes>>

\* write_message of a message that is len bytes long once encoded: the prefix
\* and the body are written and True is returned, or nothing is written and
\* False is returned.
write_message ==
    /\ alive
    /\ Len(writes) < MaxMsgs
    /\ \E len \in FrameLengths \ {0} :
        IF len > MAX_MESSAGE_SIZE
        THEN /\ writes' = Append(writes, [length |-> len, ok |-> FALSE])
             /\ UNCHANGED stdout
        ELSE /\ stdout' = Append(stdout, [length |-> len, body |-> len])
             /\ writes' = Append(writes, [length |-> len, ok |-> TRUE])
    /\ UNCHANGED <<stdinVars, signals, mainVars, workerVars, alive, emitted, log,
                   recording, callback_answers, certVars, uploadVars, tokenVars, validationVars, stream>>

InitFraming ==
    /\ Constructed
    /\ recording = "none"
    /\ callback_answers = {"2xx"}
    /\ NoLookup
    /\ NoUpload
    /\ envelope = NoEnvelope
    /\ validated = NotValidated
    /\ stream \in Streams
    /\ writes = <<>>

NextFraming ==
    \/ stdin_loop_read
    \/ write_message

SpecFraming == InitFraming /\ [][NextFraming]_vars

\* ---- crypto/certificate.py: find_certificate_by_id -----------------------
\* Strings are sequences of characters.  serial_hex is format(serial, "X")
\* and thumbprint_hex is hexdigest().upper(): upper-case hex digits.
MaxCerts == 2
MaxIdLen == 2
HexDigits == {"A", "B"}
IdChars == {"a", "A", "B", " "}

StringsOver(chars, lo, hi) == UNION {[1..n -> chars] : n \in lo..hi}

\* The certificates find_certificates can return: every serial is a
\* non-empty string, every thumbprint has the full digest length.
CertificateInfos ==
    [serial_hex : StringsOver(HexDigits, 1, MaxIdLen),
     thumbprint_hex : StringsOver(HexDigits, MaxIdLen, MaxIdLen)]

\* request.cert.cert_id: _require_str accepts any non-empty string.
CertIds == StringsOver(IdChars, 1, MaxIdLen)

\* str.upper on one character and on a string.
upper_char(c) == IF c = "a" THEN "A" ELSE c
upper(str) == [i \in DOMAIN str |-> upper_char(str[i])]

\* str.strip: without the leading and trailing blanks.
RECURSIVE lstrip(_)
lstrip(str) ==
    IF str # <<>> /\ Head(str) = " " THEN lstrip(Tail(str)) ELSE str

RECURSIVE rstrip(_)
rstrip(str) ==
    IF str # <<>> /\ str[Len(str)] = " "
    THEN rstrip(SubSeq(str, 1, Len(str) - 1)) ELSE str

strip(str) == rstrip(lstrip(str))

\* `needle in haystack` on strings.
Contains(haystack, needle) ==
    \E k \in 0..(Len(haystack) - Len(needle)) :
        SubSeq(haystack, k + 1, k + Len(needle)) = needle

\* `for ci in certs: if <test>: return ci`, given the outcome of the test for
\* each certificate in list order: the position of the first certificate that
\* passes, 0 when the loop falls through.
FirstIn(tests) ==
    IF \E i \in DOMAIN tests : tests[i]
    THEN CHOOSE i \in DOMAIN tests : tests[i] /\ \A j \in 1..(i - 1) : ~tests[j]
    ELSE 0

\* A lookup that returns the first certificate of the list that matches
\* under any of the three rules.
find_certificate_by_id_listorder(cs, id) ==
    LET needle == upper(strip(id))
    IN  FirstIn([i \in DOMAIN cs |-> \/ cs[i].serial_hex = needle
                                      \/ cs[i].thumbprint_hex = needle
                                      \/ Contains(cs[i].serial_hex, needle)])

\* find_certificate_by_id: the three loops in turn; the result is the
\* position of the certificate returned, 0 for None.
find_certificate_by_id(cs, id) ==
    LET needle == upper(strip(id))
        bySerial == FirstIn([i \in DOMAIN cs |-> cs[i].serial_hex = needle])
        byThumbprint == FirstIn([i \in DOMAIN cs |-> cs[i].thumbprint_hex = needle])
        byPartial == FirstIn([i \in DOMAIN cs |-> Contains(cs[i].serial_hex, needle)])
    IN  IF bySerial # 0 THEN bySerial
        ELSE IF byThumbprint # 0 THEN byThumbprint
        ELSE byPartial

\* _sign_worker: cert_info = find_certificate_by_id(session, certId); None
\* is answered with the request error CERT_NOT_FOUND.
sign_worker_lookup ==
    /\ ~cert_info.done
    /\ cert_info' = [done |-> TRUE, index |-> find_certificate_by_id(certs, cert_id)]
    /\ UNCHANGED <<certs, cert_id>>
    /\ UNCHANGED <<stdinVars, signals, mainVars, workerVars, alive, stdout, emitted, log,
                   recording, callback_answers, uploadVars, tokenVars, validationVars,
                   framingVars>>

LookupCode(info) == IF info.index = 0 THEN "CERT_NOT_FOUND" ELSE "none"

InitLookup ==
    /\ Constructed
    /\ recording = "none"
    /\ callback_answers = {"2xx"}
    /\ certs \in UNION {[1..n -> CertificateInfos] : n \in 0..MaxCerts}
    /\ cert_id \in CertIds
    /\ cert_info = NotLookedUp
    /\ NoUpload
    /\ envelope = NoEnvelope
    /\ validated = NotValidated
    /\ stream = <<>>
    /\ writes = <<>>

NextLookup == sign_worker_lookup

SpecLookup == InitLookup /\ [][NextLookup]_vars

\* ---- network/uploader.py: the headers of the upload request --------------
\* upload.signedContentType: _require_str accepts any non-empty string.
SignedContentTypes == {"string", "pdf", "xml", "binary", "json"}

\* config.SIGNED_CONTENT_TYPE_MAP and its .get(type, "application/octet-stream").
SIGNED_CONTENT_TYPE_MAP ==
    [string |-> "text/plain", pdf |-> "application/pdf",
     xml |-> "application/xml", binary |-> "application/octet-stream"]

content_type_of(type) ==
    IF type \in DOMAIN SIGNED_CONTENT_TYPE_MAP
    THEN SIGNED_CONTENT_TYPE_MAP[type] ELSE "application/octet-stream"

\* upload.headers of an object: a dict from header names to values, or None.
HeaderNames == {"Authorization", "Content-Type", "content-type"}
HeaderValues == {"text/html", "text/plain"}
UploadHeaders ==
    {NoHeaders} \cup
    {[given |-> TRUE, dict |-> d] :
        d \in UNION {[names -> HeaderValues] : names \in SUBSET HeaderNames}}

\* Request headers in which the caller's own Content-Type is kept.
request_headers_callerwins(type, headers) ==
    LET caller == IF headers.given THEN headers.dict ELSE <<>>
    IN  [k \in DOMAIN caller \cup {"Content-Type"} |->
            IF k \in DOMAIN caller THEN caller[k] ELSE content_type_of(type)]

\* req_headers = dict(headers or {}); req_headers["Content-Type"] = content_type
request_headers(type, headers) ==
    LET caller == IF headers.given THEN headers.dict ELSE <<>>
    IN  [k \in DOMAIN caller \cup {"Content-Type"} |->
            IF k = "Content-Type" THEN content_type_of(type) ELSE caller[k]]

\* upload_signed_content up to the requests.request call.
upload_prepare ==
    /\ ~req_headers.done
    /\ req_headers' = [done |-> TRUE,
                       headers |-> request_headers(signed_content_type, upload_headers)]
    /\ UNCHANGED <<signed_content_type, upload_headers>>
    /\ UNCHANGED <<stdinVars, signals, mainVars, workerVars, alive, stdout, emitted, log,
                   recording, callback_answers, certVars, tokenVars, validationVars,
                   framingVars>>

InitUpload ==
    /\ Constructed
    /\ recording = "none"
    /\ callback_answers = {"2xx"}
    /\ NoLookup
    /\ signed_content_type \in SignedContentTypes
    /\ upload_headers \in UploadHeaders
    /\ req_headers = NotPrepared
    /\ envelope = NoEnvelope
    /\ validated = NotValidated
    /\ stream = <<>>
    /\ writes = <<>>

NextUpload == upload_prepare

SpecUpload == InitUpload /\ [][NextUpload]_vars

\* ---- observations on the log and the responses --------------------------
Cancelled == "CANCELLED_BY_USER"

\* Number of objects of request r.
NumObjects(r) == Len(resolve_objects(msgs[r]))

\* How many entries of log `l` have a kind in `kinds`.
Count(l, kinds) == Cardinality({i \in DOMAIN l : l[i].kind \in kinds})

\* The success/error callbacks of request r, in the order they were POSTed.
TerminalCallbacks(r) ==
    SelectSeq(log, LAMBDA e : e.req = r /\ e.kind \in {"success", "error"})

\* The ids in ResponseBuilder.results / the [id, code] in .errors.
ResultIds == {results[i] : i \in DOMAIN results}
ErrorSet  == {errors[i] : i \in DOMAIN errors}

\* process_request has returned to the worker and its response was emitted.
EngineReturned == wpc \in {"finally", "done"} /\ wfail = "none"

\* Every response dict built so far: written to stdout or passed to
\* signing_complete.
AllResponses ==
    {emitted[i].resp : i \in DOMAIN emitted} \cup {stdout[i].resp : i \in DOMAIN stdout}

\* ---- C1 -----------------------------------------------------------------
\* C1: when the cancellation check fires before object k, every object k..N
\* is in the response as a CANCELLED_BY_USER error and has had an error
\* callback with that code.
C1_CancelMarksAllRemaining ==
    \A k \in 1..MaxObjs :
        (EngineReturned /\ [id |-> k, code |-> Cancelled] \in ErrorSet)
        => \A j \in k..NumObjects(wreq) :
              /\ \E i \in DOMAIN Last(emitted).resp.errors :
                    Last(emitted).resp.errors[i] = [id |-> j, code |-> Cancelled]
              /\ \E i \in DOMAIN log :
                    /\ log[i].req = wreq /\ log[i].id = j
                    /\ log[i].kind = "error" /\ log[i].info = Cancelled

\* ---- C2 -----------------------------------------------------------------
\* C2: the cancel flag is checked before each blocking step: once it is set,
\* the worker starts no download, signature, upload or success callback.
C2_CancelCheckedBeforeEachStep ==
    [][cancel_requested
        => Count(log', {"download", "sign", "upload", "success"})
             = Count(log, {"download", "sign", "upload", "success"})]_vars

\* ---- C3 -----------------------------------------------------------------
\* C3: after a progress callback of the current object was answered non-2xx,
\* that object is not signed, not uploaded, gets no success callback and is
\* not added to the ok results.
C3_ProgressFailureCancelsObject ==
    [][(cur.pfail /\ wpc \in {"content", "prog50", "sign", "prog75", "upload", "success"})
        => /\ Count(log', {"sign", "upload", "success"})
                = Count(log, {"sign", "upload", "success"})
           /\ results' = results]_vars

\* ---- C4 -----------------------------------------------------------------
\* C4: no exception leaves process_request; inside the loop every object
\* before the current one has an ok result or an error; and when it returns
\* without a cancellation, every object 1..N has one, and the response built
\* from them was emitted.
C4_FailuresNeverAbort ==
    /\ wfail \notin EngineExceptions
    /\ (wpc \in {"check", "prog0", "content", "prog50", "sign", "prog75",
                 "upload", "success"})
        => \A j \in 1..(idx - 1) :
              j \in ResultIds \/ \E e \in ErrorSet : e.id = j
    /\ (EngineReturned /\ ~\E e \in ErrorSet : e.code = Cancelled)
        => /\ \A j \in 1..NumObjects(wreq) :
                 j \in ResultIds \/ \E e \in ErrorSet : e.id = j
           /\ Last(emitted) = [req |-> wreq, resp |-> EngineResponse]

\* C4 witness: a request whose first object failed (not by cancellation) and
\* whose second object was still signed and uploaded, response emitted.
C4_Witness ==
    /\ EngineReturned
    /\ \E e \in ErrorSet : e.id = 1 /\ e.code # Cancelled
    /\ 2 \in ResultIds

\* ---- C5 -----------------------------------------------------------------
\* C5: a request processed with the cancel flag never set has exactly one
\* success/error callback per object, in declaration order; the callback is a
\* success exactly for the ok results, and an object whose download was
\* answered non-2xx has an error callback carrying DOWNLOAD_FAILED.
C5_OneTerminalCallbackPerObject ==
    (EngineReturned /\ ~cancel_requested)
    => LET t == TerminalCallbacks(wreq) IN
        /\ Len(t) = NumObjects(wreq)
        /\ \A j \in 1..Len(t) :
            /\ t[j].id = resolve_objects(msgs[wreq])[j]
            /\ (t[j].kind = "success") <=> (t[j].id \in ResultIds)
            /\ (t[j].kind = "error")
                  => [id |-> t[j].id, code |-> t[j].info] \in ErrorSet
            /\ (\E i \in DOMAIN log :
                    log[i] = Entry(wreq, t[j].id, "download", "non2xx", "worker"))
                  => (t[j].kind = "error" /\ t[j].info = "DOWNLOAD_FAILED")

\* C5 witness: two objects, the first one's download answered non-2xx, the
\* second one signed and uploaded, no cancellation.
C5_Witness ==
    /\ EngineReturned
    /\ ~cancel_requested
    /\ \E i \in DOMAIN log : log[i] = Entry(wreq, 1, "download", "non2xx", "worker")
    /\ 2 \in ResultIds

\* ---- C6 -----------------------------------------------------------------
\* C6: in the order the callbacks of one request are POSTed, object ids never
\* decrease and nothing follows an object's success/error callback for the
\* same object.
C6_CallbackOrder ==
    \A i, j \in DOMAIN log :
        (/\ i < j
         /\ log[i].req = log[j].req
         /\ log[i].kind \in {"progress", "success", "error"}
         /\ log[j].kind \in {"progress", "success", "error"})
        => /\ log[i].id <= log[j].id
           /\ ~(log[i].id = log[j].id /\ log[i].kind \in {"success", "error"})

\* ---- C7 -----------------------------------------------------------------
\* C7: in every response, status is "ok" iff errors is empty and results is
\* not, "error" iff results is empty, and "partial" iff both are non-empty.
C7_StatusMatchesLists ==
    \A r \in AllResponses :
        /\ r.status \in {"ok", "error", "partial"}
        /\ (r.status = "ok") <=> (Len(r.errors) = 0 /\ Len(r.results) > 0)
        /\ (r.status = "error") <=> (Len(r.results) = 0)
        /\ (r.status = "partial") <=> (Len(r.errors) > 0 /\ Len(r.results) > 0)

\* C7 witness: a validation-error response has been written to stdout and
\* the engine has produced a partial response (some objects ok, some failed).
C7_Witness ==
    /\ \E i \in DOMAIN stdout : stdout[i].resp.status = "error"
    /\ \E i \in DOMAIN emitted : emitted[i].resp.status = "partial"

\* ---- C8 -----------------------------------------------------------------
\* C8: when _handle_message takes a valid request off the queue while a
\* request is in flight, it leaves _current_request alone and writes a
\* BAD_REQUEST error response.
C8_SecondRequestRejected ==
    [][(/\ signals # <<>>
        /\ Head(signals).type = "message"
        /\ signals' = Tail(signals)
        /\ parse_request(msgs[Head(signals).req]) = "ok"
        /\ current_request # 0)
       => /\ current_request' = current_request
          /\ Len(stdout') = Len(stdout) + 1
          /\ Last(stdout').resp =
                build_request_error("BAD_REQUEST",
                                    raw_metadata(msgs[Head(signals).req]))]_vars

\* ---- C9 -----------------------------------------------------------------
\* C9: whenever no sign worker is running (none started, the last one has
\* returned, or the process has ended), no session it opened is still open.
C9_SessionReleased ==
    (wpc \in {"idle", "done"} \/ ~alive) => session # "open"

\* ---- C10 ----------------------------------------------------------------
\* C10: when the certificate or its private key is not found, nothing of the
\* request is downloaded, signed or uploaded; no object gets more than one
\* CERT_NOT_FOUND callback, and once the response is emitted every object has
\* had exactly one; the response is status "error", no results, one error
\* without id.
CertNotFoundCallbacks(j) ==
    {i \in DOMAIN log : log[i] = Entry(wreq, j, "error", "CERT_NOT_FOUND", "worker")}

C10_CertNotFound ==
    (wfail \in {"cert_none", "key_none"})
    => /\ \A i \in DOMAIN log :
            log[i].req = wreq => log[i].kind \notin {"download", "sign", "upload"}
       /\ \A j \in 1..NumObjects(wreq) : Cardinality(CertNotFoundCallbacks(j)) <= 1
       /\ (wpc \in {"finally", "done"})
            => /\ \A j \in 1..NumObjects(wreq) :
                    Cardinality(CertNotFoundCallbacks(j)) = 1
               /\ Last(emitted).req = wreq
               /\ Last(emitted).resp.status = "error"
               /\ Last(emitted).resp.results = <<>>
               /\ Len(Last(emitted).resp.errors) = 1
               /\ Last(emitted).resp.errors[1] = [id |-> 0, code |-> "CERT_NOT_FOUND"]

\* C10 witness: a two-object request whose certificate was not found, after
\* the worker has returned.
C10_Witness ==
    /\ wfail = "cert_none"
    /\ wpc = "done"
    /\ NumObjects(wreq) = 2

\* ---- C11 ----------------------------------------------------------------
\* The message_received signal of frame m has been taken off the event queue.
Handled(m) ==
    ~ \E i \in DOMAIN signals : signals[i].type = "message" /\ signals[i].req = m

\* The frames written to stdout for frame m.
StdoutFor(m) == {i \in DOMAIN stdout : stdout[i].req = m}

\* C11: a frame whose protocolVersion is not "1.0" never becomes the current
\* request, is never given to a sign worker (so no session is opened for it)
\* and causes no HTTP traffic; once handled, exactly one response has been
\* written for it, the request-level error UNSUPPORTED_VERSION, although the
\* frame is defective in other ways too.
C11_VersionMismatchRejected ==
    \A m \in DOMAIN msgs :
        msgs[m].pv # PROTOCOL_VERSION
        => /\ current_request # m
           /\ wreq # m
           /\ \A i \in DOMAIN log : log[i].req # m
           /\ \A i \in StdoutFor(m) :
                 stdout[i].resp = build_request_error("UNSUPPORTED_VERSION",
                                                      raw_metadata(msgs[m]))
           /\ Cardinality(StdoutFor(m)) = IF Handled(m) THEN 1 ELSE 0

\* C11 witness: a frame of version "2.0" with an empty work list has been
\* handled while the sign worker holds a session for another request.
C11_Witness ==
    \E m \in DOMAIN msgs :
        /\ msgs[m].pv = "2.0" /\ msgs[m].n = 0
        /\ Handled(m)
        /\ StdoutFor(m) # {}
        /\ session = "open"

\* ---- C12 ----------------------------------------------------------------
\* C12: whenever the window closes while _current_request is set and
\* _response_sent is not, that step sets the cancel flag and POSTs one
\* CANCELLED_BY_USER error callback for each resolved object of that request,
\* in declaration order, from the main thread.
C12_CloseIsCancellation ==
    [][(/\ window = "open" /\ window' = "closed"
        /\ current_request # 0 /\ ~response_sent)
       => /\ cancel_requested'
          /\ log' = log \o [j \in 1..NumObjects(current_request) |->
                        Entry(current_request, j, "error", Cancelled, "main")]]_vars

\* C12 witness: the window was closed on a two-object request that the sign
\* worker was processing; both objects got the callback from the main thread.
C12_Witness ==
    /\ window = "closed"
    /\ cancel_requested
    /\ wreq # 0 /\ wreq = current_request /\ session = "open"
    /\ NumObjects(wreq) = 2
    /\ \A j \in 1..2 : \E i \in DOMAIN log :
            log[i] = Entry(wreq, j, "error", Cancelled, "main")

\* ---- C13 ----------------------------------------------------------------
\* C13: once the main thread has handled signing_complete for a response the
\* engine composed (its errors, if any, are keyed by object id), that response
\* has been written to stdout as one frame.
C13_ResponseWrittenToStdout ==
    \A i \in DOMAIN emitted :
        (/\ \A e \in DOMAIN emitted[i].resp.errors :
                emitted[i].resp.errors[e].id # 0
         /\ ~ \E k \in DOMAIN signals :
                signals[k].type = "complete" /\ signals[k].req = emitted[i].req)
        => Cardinality({k \in DOMAIN stdout :
                            /\ stdout[k].req = emitted[i].req
                            /\ stdout[k].resp = emitted[i].resp}) = 1

\* ---- C14 ----------------------------------------------------------------
\* C14: at the step that emits a response (signing_complete), every resolved
\* object of that request has already had a success or error callback POSTed.
C14_ResponseAfterAllCallbacks ==
    [][Len(emitted') > Len(emitted)
       => \A j \in 1..NumObjects(Last(emitted').req) :
            \E k \in DOMAIN log' :
                /\ log'[k].req = Last(emitted').req
                /\ log'[k].id = j
                /\ log'[k].kind \in {"success", "error"}]_vars

\* ---- C15 ----------------------------------------------------------------
\* The sign worker is between its start and the emission of its response.
PipelineActive == wpc \notin {"idle", "finally", "done"}

\* C15: while a sign worker is active, _signing_in_progress is set and the
\* Sign button, the only way into _on_sign_clicked, is disabled, whatever
\* frames arrive and whatever the token enumeration reports meanwhile.
C15_OnePipeline ==
    PipelineActive => (signing_in_progress /\ ~sign_btn)

\* C15 witness: during signing a second valid frame has been handled and a
\* token enumeration has run and been handled.
C15_Witness ==
    /\ PipelineActive
    /\ session = "open"
    /\ current_request \notin {0, wreq}
    /\ ticks > 0 /\ refresh_workers = 0
    /\ signals = <<>>

\* ---- C16 ----------------------------------------------------------------
\* C16: no token-refresh thread is inside get_token_slots while the sign
\* worker holds an open session for the request it is processing.
C16_NoPkcs11Contention ==
    ~(refresh_workers > 0 /\ session = "open" /\ PipelineActive)

\* ---- C17 ----------------------------------------------------------------
\* C17: there is never more than one token-refresh thread, and the flag is
\* set exactly while there is one; a tick during an enumeration starts
\* nothing, and a tick after the enumeration has ended (by return or by
\* exception) starts a new one.
C17_SingleFlight ==
    /\ [](/\ refresh_workers <= 1
          /\ token_refresh_in_progress <=> (refresh_workers = 1))
    /\ [][ticks' > ticks
          => IF token_refresh_in_progress
             THEN refresh_workers' = refresh_workers
             ELSE refresh_workers' = 1]_vars

\* C17 witness: the first enumeration has ended and its result is still
\* queued; the second tick has started a new enumeration.
C17_Witness ==
    /\ ticks = 2
    /\ refresh_workers = 1
    /\ \E i \in DOMAIN signals : signals[i].type = "tokens"

\* ---- C18 ----------------------------------------------------------------
\* C18: the ids of the resolved work list of an accepted envelope are pairwise
\* distinct.
C18_ResolvedIdsDistinct ==
    validated.code = "ok"
    => \A i, j \in DOMAIN validated.resolved :
            i # j => validated.resolved[i].id # validated.resolved[j].id

\* ---- C19 ----------------------------------------------------------------
\* A well-formed envelope with one inline text object of `size` bytes, in the
\* objects form and in the objectGroups form.
InlineObjectEnvelope(size) ==
    Envelope("1.0", TRUE, FALSE,
             <<[id |-> "a", dataType |-> "text", mode |-> "inline",
                content |-> size, downloadUrl |-> <<>>]>>, <<>>)

InlineGroupEnvelope(size) ==
    Envelope("1.0", FALSE, TRUE, <<>>,
             <<[dataType |-> "text", mode |-> "inline", downloadUrl |-> <<>>,
                objects |-> <<[id |-> "a", value |-> size]>>]>>)

\* C19: a well-formed envelope whose inline content is exactly
\* MAX_INLINE_SIZE_BYTES long is accepted, and one whose inline content is one
\* byte longer is rejected with BAD_REQUEST.
C19_InlineCap ==
    validated # NotValidated
    => /\ envelope \in {InlineObjectEnvelope(MAX_INLINE_SIZE_BYTES),
                        InlineGroupEnvelope(MAX_INLINE_SIZE_BYTES)}
            => validated.code = "ok"
       /\ envelope \in {InlineObjectEnvelope(MAX_INLINE_SIZE_BYTES + 1),
                        InlineGroupEnvelope(MAX_INLINE_SIZE_BYTES + 1)}
            => validated.code = "BAD_REQUEST"

\* ---- C20 ----------------------------------------------------------------
\* C20: in the resolved work list of an accepted envelope, of either form,
\* every object has exactly one of inline_content and download_url assigned
\* and non-empty.
C20_ExactlyOneContent ==
    validated.code = "ok"
    => \A i \in DOMAIN validated.resolved :
        LET ro == validated.resolved[i]
            inline == ro.inline_set /\ ro.inline_content > 0
            remote == ro.url_set /\ ro.download_url # <<>>
        IN  /\ inline \/ remote
            /\ ~(inline /\ remote)
            /\ ~(ro.inline_set /\ ro.url_set)

\* C20 witness: an accepted envelope of two groups, one inline and one
\* remote, whose raw objects carry a value all the same.
C20_Witness ==
    /\ validated.code = "ok"
    /\ envelope.has_groups
    /\ Len(validated.resolved) = 2
    /\ validated.resolved[1].inline_set
    /\ validated.resolved[2].url_set
    /\ envelope.objectGroups[2].objects[1].value > 0

\* ---- C21 ----------------------------------------------------------------
\* Position in the resolved list of the first object of group g: the number
\* of inner objects of the groups before it.
GroupOffset(groups, g) ==
    SumSizes([h \in 1..(g - 1) |-> Len(groups[h].objects)])

\* C21: the resolved work list of an accepted envelope is the flattening of
\* the envelope in declaration order: as long as objects[] with the ids in
\* the order of objects[], or as long as all inner objects together with the
\* ids in group order, then inner-object order.
C21_DeclarationOrder ==
    validated.code = "ok"
    => LET res == validated.resolved
           groups == envelope.objectGroups
       IN  IF envelope.has_objects
           THEN /\ Len(res) = Len(envelope.objects)
                /\ \A i \in DOMAIN envelope.objects :
                        res[i].id = envelope.objects[i].id
           ELSE /\ Len(res) = GroupOffset(groups, Len(groups) + 1)
                /\ \A g \in DOMAIN groups : \A i \in DOMAIN groups[g].objects :
                        res[GroupOffset(groups, g) + i].id = groups[g].objects[i].id

\* C21 witness: an accepted envelope of two groups of one object each, with
\* different ids.
C21_Witness ==
    /\ validated.code = "ok"
    /\ Len(envelope.objectGroups) = 2
    /\ Len(validated.resolved) = 2
    /\ validated.resolved[1].id = "a"
    /\ validated.resolved[2].id = "b"

\* ---- C22 ----------------------------------------------------------------
\* The envelope was read and its protocol version accepted: parse_request
\* got as far as the objects / objectGroups keys.
ReachedForms ==
    /\ validated.code \notin {"none", "dropped"}
    /\ envelope.pv = PROTOCOL_VERSION

\* C22: an envelope with both keys, and one with neither, is rejected with
\* BAD_REQUEST; an accepted envelope has exactly one of the two keys and the
\* list under it is not empty.
C22_FormsExclusive ==
    /\ ReachedForms /\ (envelope.has_objects <=> envelope.has_groups)
            => validated.code = "BAD_REQUEST"
    /\ validated.code = "ok"
            => /\ envelope.has_objects # envelope.has_groups
               /\ envelope.has_objects => envelope.objects # <<>>
               /\ envelope.has_groups => envelope.objectGroups # <<>>

\* C22 witness: an envelope with both keys and a well-formed object has been
\* rejected.
C22_Witness ==
    /\ validated.code = "BAD_REQUEST"
    /\ envelope.has_objects /\ envelope.has_groups
    /\ envelope.pv = PROTOCOL_VERSION
    /\ Len(envelope.objects) = 1
    /\ parse_object(envelope.objects[1]) = "ok"

\* ---- C23 ----------------------------------------------------------------
HasPlaceholder(url) == \E i \in DOMAIN url : url[i] = "<objectId>"

\* Group g is a remote group whose downloadUrl template lacks the
\* placeholder.
LacksPlaceholder(g) == g.mode = "remote" /\ ~HasPlaceholder(g.downloadUrl)

\* C23: an envelope with a remote group whose downloadUrl lacks <objectId> is
\* rejected, with BAD_REQUEST when no UNSUPPORTED_TYPE is raised first; and in
\* an accepted envelope the download URL of every object of a remote group is
\* the template with the placeholder replaced by the object's id, so that
\* objects of the group with different ids have different URLs.
C23_PlaceholderRequired ==
    LET groups == envelope.objectGroups
        res == validated.resolved
    IN  /\ ReachedForms /\ envelope.has_groups /\ ~envelope.has_objects
           /\ (\E g \in DOMAIN groups : LacksPlaceholder(groups[g]))
                => /\ validated.code \in {"BAD_REQUEST", "UNSUPPORTED_TYPE"}
                   /\ (\A g \in DOMAIN groups :
                            groups[g].dataType \in SUPPORTED_DATA_TYPES)
                        => validated.code = "BAD_REQUEST"
        /\ validated.code = "ok" /\ envelope.has_groups
                => \A g \in DOMAIN groups : groups[g].mode = "remote" =>
                    \A i, j \in DOMAIN groups[g].objects :
                        LET ri == res[GroupOffset(groups, g) + i]
                            rj == res[GroupOffset(groups, g) + j]
                        IN  /\ ri.url_set
                            /\ \E k \in DOMAIN ri.download_url :
                                    /\ groups[g].downloadUrl[k] = "<objectId>"
                                    /\ ri.download_url[k] = ri.id
                            /\ ~HasPlaceholder(ri.download_url)
                            /\ ri.id # rj.id => ri.download_url # rj.download_url

\* An accepted remote group with two objects of different ids.
C23_SubstitutionWitness ==
    /\ validated.code = "ok"
    /\ Len(envelope.objectGroups) = 1
    /\ envelope.objectGroups[1].mode = "remote"
    /\ Len(validated.resolved) = 2
    /\ validated.resolved[1].id # validated.resolved[2].id

\* C23 witness: a remote group, well-formed but for its
\* downloadUrl without placeholder, has been rejected.
C23_Witness ==
    /\ validated.code = "BAD_REQUEST"
    /\ Len(envelope.objectGroups) = 1
    /\ envelope.objectGroups[1].dataType = "pdf"
    /\ envelope.objectGroups[1].downloadUrl = <<"u">>
    /\ LacksPlaceholder(envelope.objectGroups[1])
    /\ Len(envelope.objectGroups[1].objects) = 1
    /\ envelope.objectGroups[1].objects[1].id = "a"

\* ---- C24 ----------------------------------------------------------------
\* Some object or group of the envelope is pdf or binary with inline mode.
RemoteOnlyInline ==
    \/ \E i \in DOMAIN envelope.objects :
            /\ envelope.objects[i].dataType \in REMOTE_ONLY_TYPES
            /\ envelope.objects[i].mode = "inline"
    \/ \E g \in DOMAIN envelope.objectGroups :
            /\ envelope.objectGroups[g].dataType \in REMOTE_ONLY_TYPES
            /\ envelope.objectGroups[g].mode = "inline"

\* Every object and group of the envelope has a supported dataType.
AllTypesSupported ==
    /\ \A i \in DOMAIN envelope.objects :
            envelope.objects[i].dataType \in SUPPORTED_DATA_TYPES
    /\ \A g \in DOMAIN envelope.objectGroups :
            envelope.objectGroups[g].dataType \in SUPPORTED_DATA_TYPES

\* C24: an envelope with a pdf or binary object or group in inline mode is
\* rejected, with BAD_REQUEST when no UNSUPPORTED_TYPE is raised first; no
\* resolved object has a remote-only dataType together with inline content.
C24_RemoteOnly ==
    /\ ReachedForms /\ RemoteOnlyInline
            => /\ validated.code \in {"BAD_REQUEST", "UNSUPPORTED_TYPE"}
               /\ AllTypesSupported => validated.code = "BAD_REQUEST"
    /\ validated.code = "ok"
            => \A i \in DOMAIN validated.resolved :
                    ~(/\ validated.resolved[i].data_type \in REMOTE_ONLY_TYPES
                      /\ validated.resolved[i].inline_set)

\* C24 witness: an envelope whose one object is well-formed but for being a
\* pdf with inline content has been rejected.
C24_Witness ==
    /\ validated.code = "BAD_REQUEST"
    /\ envelope.has_objects /\ ~envelope.has_groups
    /\ Len(envelope.objects) = 1
    /\ envelope.objects[1].dataType = "pdf"
    /\ envelope.objects[1].mode = "inline"
    /\ envelope.objects[1].id = "a"
    /\ envelope.objects[1].content = 1

\* ---- C25 ----------------------------------------------------------------
\* The step is the main thread taking the message_received signal of a frame
\* that fails validation.
HandlesInvalidMessage ==
    /\ signals # <<>>
    /\ Head(signals).type = "message"
    /\ parse_request(msgs[Head(signals).req]) # "ok"
    /\ signals' = Tail(signals)

ShortRead ==
    /\ stdin = "reading"
    /\ \/ stream = <<>>
       \/ /\ stream # <<>>
          /\ \/ Head(stream).prefix < 4
             \/ /\ Head(stream).length > 0
                /\ Head(stream).length <= MAX_MESSAGE_SIZE
                /\ Head(stream).body < Head(stream).length

\* C26: the iteration of the reader loop that meets a short read, on the
\* prefix or on the body, delivers nothing and ends the loop; once the loop
\* has ended nothing more is read from the stream or delivered to the
\* message handler.
C26_ShortReadEndsSession ==
    /\ [][ShortRead /\ writes' = writes
            => /\ stdin' \in {"short_prefix", "short_body"}
               /\ UNCHANGED <<msgs, signals, stream>>]_vars
    /\ [][stdin # "reading" => UNCHANGED <<stdin, msgs, signals, stream>>]_vars

\* C26 witness: the loop has ended on a short body, with a complete frame
\* behind it on the stream and nothing delivered.
C26_Witness ==
    /\ stdin = "short_body"
    /\ Len(stream) = 2
    /\ stream[2] = [prefix |-> 4, length |-> 1, body |-> 1, json |-> TRUE]
    /\ msgs = <<>>
    /\ signals = <<>>
    /\ writes # <<>>

\* ---- C27 ----------------------------------------------------------------
\* The next frame is complete and its prefix declares `len` bytes.
NextFrameDeclares(len) ==
    /\ stdin = "reading"
    /\ stream # <<>>
    /\ Head(stream).prefix = 4
    /\ Head(stream).length = len

\* C27: a complete JSON frame of exactly MAX_MESSAGE_SIZE bytes is delivered
\* with all its bytes decoded; a frame declaring one byte more is not
\* delivered, no byte of its body is read and the loop ends; every frame
\* delivered was decoded in full; a write_message of more than
\* MAX_MESSAGE_SIZE bytes returns False and writes nothing, and what is on
\* stdout is the messages of the successful writes, whole.
C27_FrameLimit ==
    /\ [][/\ NextFrameDeclares(MAX_MESSAGE_SIZE)
           /\ Head(stream).body = MAX_MESSAGE_SIZE
           /\ Head(stream).json
           /\ writes' = writes
            => /\ msgs' = Append(msgs, [length |-> MAX_MESSAGE_SIZE,
                                        decoded |-> MAX_MESSAGE_SIZE])
               /\ stdin' = "reading"]_vars
    /\ [][NextFrameDeclares(MAX_MESSAGE_SIZE + 1) /\ writes' = writes
            => /\ stdin' = "too_large"
               /\ UNCHANGED <<msgs, signals, stream>>]_vars
    /\ [](\A m \in DOMAIN msgs :
            msgs[m].decoded = msgs[m].length /\ msgs[m].length <= MAX_MESSAGE_SIZE)
    /\ [](\A w \in DOMAIN writes :
            writes[w].ok <=> writes[w].length <= MAX_MESSAGE_SIZE)
    /\ [](stdout = SelectSeq([w \in DOMAIN writes |->
                        IF writes[w].ok
                        THEN [length |-> writes[w].length, body |-> writes[w].length]
                        ELSE [length |-> 0, body |-> 0]],
                     LAMBDA fr : fr.length > 0))

\* C27 witness: a frame of exactly MAX_MESSAGE_SIZE bytes was delivered, the
\* next one, a byte longer, ended the loop, and of two write_message calls
\* the one of MAX_MESSAGE_SIZE bytes was written and the one a byte longer
\* was not.
C27_Witness ==
    /\ msgs = <<[length |-> MAX_MESSAGE_SIZE, decoded |-> MAX_MESSAGE_SIZE]>>
    /\ stdin = "too_large"
    /\ stream # <<>>
    /\ Head(stream).length = MAX_MESSAGE_SIZE + 1
    /\ Head(stream).body = MAX_MESSAGE_SIZE + 1
    /\ writes = <<[length |-> MAX_MESSAGE_SIZE, ok |-> TRUE],
                  [length |-> MAX_MESSAGE_SIZE + 1, ok |-> FALSE]>>
    /\ stdout = <<[length |-> MAX_MESSAGE_SIZE, body |-> MAX_MESSAGE_SIZE]>>

\* ---- C28 ----------------------------------------------------------------
\* C28: the reader loop delivers at most one envelope to the main thread in
\* the life of the process.
C28_SingleEnvelope == Len(msgs) <= 1

\* ---- C29 ----------------------------------------------------------------
\* The metadata of frame m as a mapping: what is under its metadata key, the
\* empty mapping when it has no such key.
MetadataOf(m) == IF msgs[m].md = "absent" THEN "{}" ELSE msgs[m].md

\* Frame m has no metadata, a mapping, or a value that is kept as it is in an
\* error response (not one of the falsy values that are no mapping).
MetadataEchoable(m) == msgs[m].md # "[]"

C30_TokenRemoved ==
    /\ (wfail = "TokenNotPresent" /\ wpc \in {"finally", "done"})
            => Last(emitted).resp.errors = <<[id |-> 0, code |-> "CERT_NOT_FOUND"]>>
    /\ \A i \in DOMAIN log :
            (log[i].kind = "sign" /\ log[i].info = "TokenNotPresent")
            => /\ \A j \in DOMAIN log :
                    (/\ log[j].kind = "error" /\ log[j].by = "worker"
                     /\ log[j].req = log[i].req /\ log[j].id = log[i].id)
                    => log[j].info = "CERT_NOT_FOUND"
               /\ \A e \in DOMAIN errors :
                    (wreq = log[i].req /\ errors[e].id = log[i].id)
                    => errors[e].code = "CERT_NOT_FOUND"

\* ---- C31 ----------------------------------------------------------------
PinExceptions == {"PinIncorrect", "PinLocked", "PinExpired"}

SignFailedCallbacks(j) ==
    {i \in DOMAIN log : log[i] = Entry(wreq, j, "error", "SIGN_FAILED", "worker")}

\* C31: when open_session fails on an incorrect, locked or expired PIN, no
\* session is open, nothing of the request is downloaded, signed or uploaded
\* and no object is recorded; no object gets more than one SIGN_FAILED
\* callback from the worker, and once the response is emitted every object
\* has had exactly one; the response is status "error", no results, one
\* error SIGN_FAILED without id.
C31_PinFailure ==
    (wfail \in PinExceptions)
    => /\ session # "open"
       /\ results = <<>> /\ errors = <<>>
       /\ \A i \in DOMAIN log :
            log[i].req = wreq
            => /\ log[i].kind \notin {"download", "sign", "upload", "progress", "success"}
               /\ log[i].by = "worker" => log[i].info = "SIGN_FAILED"
       /\ \A j \in 1..NumObjects(wreq) : Cardinality(SignFailedCallbacks(j)) <= 1
       /\ (wpc \in {"finally", "done"})
            => /\ \A j \in 1..NumObjects(wreq) :
                    Cardinality(SignFailedCallbacks(j)) = 1
               /\ Last(emitted).req = wreq
               /\ Last(emitted).resp.status = "error"
               /\ Last(emitted).resp.results = <<>>
               /\ Last(emitted).resp.errors = <<[id |-> 0, code |-> "SIGN_FAILED"]>>

\* C31 witness: a two-object request whose PIN was locked, after the worker
\* has returned.
C31_Witness ==
    /\ wfail = "PinLocked"
    /\ wpc = "done"
    /\ NumObjects(wreq) = 2
    /\ session = "none"

\* ---- C32 ----------------------------------------------------------------
\* The entries of kind in `kinds` that the worker put on the wire for object
\* j of request r.
WorkerAttempts(r, j, kinds) ==
    {i \in DOMAIN log : /\ log[i].req = r /\ log[i].id = j
                        /\ log[i].kind \in kinds /\ log[i].by = "worker"}

TransferCode(kind, outcome) ==
    IF outcome = "timeout" THEN "TIMEOUT"
    ELSE IF kind = "download" THEN "DOWNLOAD_FAILED" ELSE "UPLOAD_FAILED"

\* C33: a download or upload answered non-2xx, or that met a connection
\* error, is DOWNLOAD_FAILED resp. UPLOAD_FAILED; one that timed out is
\* TIMEOUT; the error callback of the object and the error recorded for it in
\* the response carry exactly that code.
C33_OutcomeCodes ==
    \A i \in DOMAIN log :
        (log[i].kind \in {"download", "upload"} /\ log[i].info # "2xx")
        => LET code == TransferCode(log[i].kind, log[i].info)
           IN  /\ \E k \in DOMAIN log :
                    k > i /\ log[k] = Entry(log[i].req, log[i].id, "error", code, "worker")
               /\ \A k \in DOMAIN log :
                    (/\ log[k].kind = "error" /\ log[k].by = "worker"
                     /\ log[k].req = log[i].req /\ log[k].id = log[i].id)
                    => log[k].info = code
               /\ log[i].req = wreq
                    => /\ [id |-> log[i].id, code |-> code] \in ErrorSet
                       /\ \A e \in ErrorSet : e.id = log[i].id => e.code = code
               /\ (log[i].req = wreq /\ EngineReturned)
                    => \E e \in DOMAIN Last(emitted).resp.errors :
                          Last(emitted).resp.errors[e] = [id |-> log[i].id, code |-> code]

\* C33 witness: the download of object 1 timed out and the upload of object
\* 2 met a connection error; the response was emitted.
C33_Witness ==
    /\ EngineReturned
    /\ errors = <<[id |-> 1, code |-> "TIMEOUT"], [id |-> 2, code |-> "UPLOAD_FAILED"]>>
    /\ \E i, k \in DOMAIN log :
        /\ log[i].kind = "download" /\ log[i].id = 1 /\ log[i].info = "timeout"
        /\ log[k].kind = "upload" /\ log[k].id = 2 /\ log[k].info = "connerr"

\* ---- C34 ----------------------------------------------------------------
\* A success or error callback POST of the pipeline that was not answered 2xx.
FailedCallback(e) ==
    /\ e.kind \in {"success", "error"}
    /\ e.by = "worker"
    /\ e.answer \in HttpOutcomes \ {"2xx"}

\* C34: an object whose success callback was answered non-2xx, timed out or
\* met a connection error is an ok result and has no error; an object whose
\* error callback failed so keeps exactly the error that was reported; the
\* step that meets the failure goes on to the next object; and a request that
\* was not cancelled still accounts for every object when it returns.
C34_CallbackFailureIsNotFatal ==
    /\ [](\A i \in DOMAIN log :
            (FailedCallback(log[i]) /\ log[i].req = wreq /\ wfail = "none")
            => IF log[i].kind = "success"
               THEN /\ log[i].id \in ResultIds
                    /\ \A e \in ErrorSet : e.id # log[i].id
               ELSE /\ log[i].id \notin ResultIds
                    /\ \A e \in ErrorSet : e.id = log[i].id => e.code = log[i].info
                    /\ [id |-> log[i].id, code |-> log[i].info] \in ErrorSet)
    /\ []((EngineReturned /\ ~cancel_requested)
            => Len(results) + Len(errors) = NumObjects(wreq))
    /\ [][(/\ wpc \in {"content", "sign", "upload", "success"}
            /\ wpc' = "check"
            /\ FailedCallback(Last(log')))
           => /\ idx' = idx + 1
              /\ Last(log').id = idx
              /\ IF wpc = "success"
                 THEN results' = Append(results, idx) /\ errors' = errors
                 ELSE /\ results' = results
                      /\ errors' = Append(errors, [id |-> idx, code |-> Last(log').info])]_vars

\* C34 witness: the download of object 1 failed and its error callback timed
\* out; the pipeline is now signing object 2, with the error of object 1
\* recorded as it was reported.
C34_Witness ==
    /\ wpc = "sign" /\ idx = 2
    /\ log = <<Entry(wreq, 1, "download", "non2xx", "worker"),
               Answered(Entry(wreq, 1, "error", "DOWNLOAD_FAILED", "worker"), "timeout")>>
    /\ errors = <<[id |-> 1, code |-> "DOWNLOAD_FAILED"]>>
    /\ results = <<>>

\* ---- C35 ----------------------------------------------------------------
\* The certId, trimmed, equals `str` when case is ignored / is contained in it.
SameIgnoringCase(str) == upper(str) = upper(strip(cert_id))
PartOfIgnoringCase(str) == Contains(upper(str), upper(strip(cert_id)))

SerialMatches == {i \in DOMAIN certs : SameIgnoringCase(certs[i].serial_hex)}
ThumbprintMatches == {i \in DOMAIN certs : SameIgnoringCase(certs[i].thumbprint_hex)}
PartialMatches == {i \in DOMAIN certs : PartOfIgnoringCase(certs[i].serial_hex)}

\* The smallest position of a non-empty set of positions.
Earliest(S) == CHOOSE i \in S : \A j \in S : i <= j

\* C35: the certificate returned is the earliest one whose serial equals the
\* certId; when there is none, the earliest whose thumbprint equals it; when
\* there is none either, the earliest whose serial contains it; and when no
\* certificate matches at all the request is answered with CERT_NOT_FOUND.
\* Case is ignored throughout.
C35_SelectionPriority ==
    cert_info.done
    => /\ SerialMatches # {} => cert_info.index = Earliest(SerialMatches)
       /\ (SerialMatches = {} /\ ThumbprintMatches # {})
            => cert_info.index = Earliest(ThumbprintMatches)
       /\ (SerialMatches = {} /\ ThumbprintMatches = {} /\ PartialMatches # {})
            => cert_info.index = Earliest(PartialMatches)
       /\ (SerialMatches \cup ThumbprintMatches \cup PartialMatches = {})
            <=> LookupCode(cert_info) = "CERT_NOT_FOUND"

\* C35 witness: the first certificate matches the certId by its thumbprint
\* only, the second by its whole serial, and the second is returned; the
\* certId is written in lower case.
C35_Witness ==
    /\ cert_info.done /\ cert_info.index = 2
    /\ cert_id = <<"a", "a">>
    /\ 1 \in ThumbprintMatches /\ 1 \notin SerialMatches
    /\ 2 \in SerialMatches

\* ---- C36 ----------------------------------------------------------------
\* C36: the upload request of an object declared as string, pdf, xml or
\* binary carries the Content-Type text/plain, application/pdf,
\* application/xml or application/octet-stream, whatever Content-Type the
\* upload headers of the caller gave.
C36_UploadContentType ==
    req_headers.done
    => LET sent == req_headers.headers["Content-Type"]
       IN  /\ signed_content_type = "string" => sent = "text/plain"
           /\ signed_content_type = "pdf" => sent = "application/pdf"
           /\ signed_content_type = "xml" => sent = "application/xml"
           /\ signed_content_type = "binary" => sent = "application/octet-stream"

\* C36 witness: a pdf whose caller asked for Content-Type text/html (and an
\* Authorization header) is uploaded as application/pdf.
C36_Witness ==
    /\ req_headers.done
    /\ signed_content_type = "pdf"
    /\ upload_headers.given
    /\ DOMAIN upload_headers.dict = {"Authorization", "Content-Type"}
    /\ upload_headers.dict["Content-Type"] = "text/html"
    /\ req_headers.headers["Content-Type"] = "application/pdf"
    /\ req_headers.headers["Authorization"] = upload_headers.dict["Authorization"]

\* ---- C37 ----------------------------------------------------------------
\* The positions in the log of what the pipeline did for object j of the
\* worker's request: every step of the given kinds, and the failed ones.
Steps(j, kinds) == WorkerAttempts(wreq, j, kinds)
FailedSteps(j, kinds) ==
    {i \in Steps(j, kinds) : log[i].info \notin {"2xx", "ok"}}

\* Every position of A lies before every position of B.
AllBefore(A, B) == \A a \in A : \A b \in B : a < b

Occurrences(ids, j) == Cardinality({i \in DOMAIN ids : ids[i] = j})

\* The sequence of object ids is in declaration order.
InDeclarationOrder(ids) == \A a, b \in DOMAIN ids : a < b => ids[a] < ids[b]

TerminalCallbacksOf(r, j) ==
    {i \in DOMAIN log : /\ log[i].req = r /\ log[i].id = j
                        /\ log[i].kind \in {"success", "error"}}

\* C39: over the whole life of a request, a window close while the worker
\* runs included, no object receives more than one success/error callback.
C39_AtMostOneTerminalCallback ==
    \A r \in DOMAIN msgs : \A j \in 1..MaxObjs :
        Cardinality(TerminalCallbacksOf(r, j)) <= 1

\* ---- C40 ----------------------------------------------------------------
\* Frame m was accepted by _handle_message.
Validated(m) == Handled(m) /\ parse_request(msgs[m]) = "ok"

\* Frame m was the raw_request of a sign worker.
HandedToWorker(m) == runs > 0 /\ wreq = m

\* An error callback was POSTed for every object of frame m.
ErrorCallbacksAttempted(m) ==
    \A j \in 1..NumObjects(m) :
        \E i \in DOMAIN log :
            log[i].req = m /\ log[i].id = j /\ log[i].kind = "error"

\* C40: by the time the process has ended, every request that
\* _handle_message accepted was handed to a sign worker or had an error
\* callback sent for each of its objects.
C40_NoValidatedRequestDropped ==
    ~alive
    => \A m \in DOMAIN msgs :
          Validated(m) => HandedToWorker(m) \/ ErrorCallbacksAttempted(m)

====
